---- MODULE Spec2Model ----
(***************************************************************************)
(* The spatial-relation processing engine of france-cars: SqlProcessor     *)
(* (src/src/lib.py) driving a PostGIS engine.  Text values that the code   *)
(* slices (geometry types, modes, relation kinds) are sequences of         *)
(* one-character strings; relation names are strings.                      *)
(***************************************************************************)
EXTENDS Integers, Sequences, FiniteSets, TLC

\* last: the relation that the call that returned last has turned multipart
\* (None if that call did anything else, or failed)
\* other: a second caller working on the same engine at the same time (NoCall
\* where the caller is alone)
VARIABLES rels, sql_directory, call, ncalls, last, other

vars == <<rels, sql_directory, call, ncalls, last, other>>

\* ------------------------------------------------------------------ bounds
MaxCalls == 2
MaxNames == 2

None == "None"

\* ------------------------------------------------------------- text values
ST_ == <<"S", "T", "_">>
Multi == <<"M", "u", "l", "t", "i">>
Point == <<"P", "o", "i", "n", "t">>
LineString == <<"L", "i", "n", "e", "S", "t", "r", "i", "n", "g">>
Polygon == <<"P", "o", "l", "y", "g", "o", "n">>
GeometryCollection ==
  <<"G", "e", "o", "m", "e", "t", "r", "y", "C", "o", "l", "l", "e", "c", "t", "i", "o", "n">>
XY_ == <<"X", "Y", "_">>

ST_Point == ST_ \o Point
ST_LineString == ST_ \o LineString
ST_Polygon == ST_ \o Polygon
ST_MultiPolygon == ST_ \o Multi \o Polygon
ST_MultiLineString == ST_ \o Multi \o LineString
ST_GeometryCollection == ST_ \o GeometryCollection

m_file == <<"f", "i", "l", "e">>
m_string == <<"s", "t", "r", "i", "n", "g">>
m_FILE == <<"F", "I", "L", "E">>
m_String == <<"S", "t", "r", "i", "n", "g">>
m_direct == <<"d", "i", "r", "e", "c", "t">>
m_template == <<"t", "e", "m", "p", "l", "a", "t", "e">>

k_TABLE == <<"T", "A", "B", "L", "E">>
k_VIEW == <<"V", "I", "E", "W">>
k_table == <<"t", "a", "b", "l", "e">>
k_INDEX == <<"I", "N", "D", "E", "X">>

UpperOf == [c \in {"a", "b", "c", "d", "e", "f", "g", "i", "l", "m", "n", "p",
                   "o", "r", "s", "t", "u", "v", "w", "x", "y"} |->
              CASE c = "a" -> "A" [] c = "b" -> "B" [] c = "c" -> "C"
                [] c = "d" -> "D" [] c = "e" -> "E" [] c = "f" -> "F"
                [] c = "g" -> "G" [] c = "i" -> "I" [] c = "l" -> "L"
                [] c = "m" -> "M" [] c = "n" -> "N" [] c = "o" -> "O"
                [] c = "p" -> "P" [] c = "u" -> "U" [] c = "y" -> "Y"
                [] c = "r" -> "R" [] c = "s" -> "S" [] c = "t" -> "T"
                [] c = "v" -> "V" [] c = "w" -> "W" [] c = "x" -> "X"]

\* str.upper()
Upper(s) == [i \in 1..Len(s) |-> IF s[i] \in DOMAIN UpperOf THEN UpperOf[s[i]] ELSE s[i]]

\* str.lower()
Lower(s) ==
  [i \in 1..Len(s) |->
     IF \E c \in DOMAIN UpperOf : UpperOf[c] = s[i]
       THEN CHOOSE c \in DOMAIN UpperOf : UpperOf[c] = s[i]
       ELSE s[i]]

\* s[:n]
Head_(s, n) == SubSeq(s, 1, IF Len(s) < n THEN Len(s) ELSE n)

\* s[n:]
Tail_(s, n) == SubSeq(s, n + 1, Len(s))

\* ---------------------------------------------------------- pure functions
has_single_geometry_type_legacy(geometry_type) == ~(Len(geometry_type) > 1)

has_single_geometry_type_nonempty(geometry_type) == Len(geometry_type) >= 1

\* len(geometry_type) == 1
has_single_geometry_type(geometry_type) == Len(geometry_type) = 1

\* itertools.chain(*lists): the rows are tuples, the result their concatenation
RECURSIVE flatten(_)
flatten(lists) ==
  IF lists = <<>> THEN <<>> ELSE Head(lists) \o flatten(Tail(lists))

\* the result is [err, val]: err = "" on a normal return
convert_st_to_type_nostrip(geometry, allow_multi) ==
  IF Head_(geometry, 3) # ST_
    THEN [err |-> "ValueError: not compatible with PostGIS", val |-> <<>>]
    ELSE [err |-> "", val |-> Tail_(geometry, 3)]

convert_st_to_type(geometry, allow_multi) ==
  IF Head_(geometry, 3) # ST_
    THEN [err |-> "ValueError: not compatible with PostGIS", val |-> <<>>]
    ELSE LET g == Tail_(geometry, 3)
         IN  IF Head_(g, 5) = Multi /\ ~allow_multi
               THEN [err |-> "", val |-> Tail_(g, 5)]
               ELSE [err |-> "", val |-> g]

DIMENSION == (Point :> 0) @@ (LineString :> 1) @@ (Polygon :> 2)

\* ------------------------------------------------------- the PostGIS engine
\* A relation of the engine: its kind, the distinct SRIDs and geometry types
\* of its rows, the indexes built on it, the relations a view reads, the
\* statement that made it, and whether reading it raises.
BaseNames == {"a", "b", "c"}

\* f"{relation_b}_tmp"
TmpName(relation_b) == relation_b \o "_tmp"

\* f"{relation}_geom_idx"
IndexName(relation) == relation \o "_geom_idx"

AllNames == BaseNames \cup {TmpName(n) : n \in BaseNames}

NoRel == [kind |-> <<>>]

Exists(eng, n) == n \in DOMAIN eng /\ eng[n].kind # <<>>

Dependents(eng, n) == {v \in DOMAIN eng : Exists(eng, v) /\ n \in eng[v].deps}

RECURSIVE CascadeSet(_, _)
CascadeSet(eng, S) ==
  LET more == S \cup UNION {Dependents(eng, n) : n \in S}
  IN  IF more = S THEN S ELSE CascadeSet(eng, more)

AllIndexes(eng) == UNION {eng[n].idx : n \in {x \in DOMAIN eng : Exists(eng, x)}}

Orders(S) ==
  {s \in [1..Cardinality(S) -> S] : \A x \in S : \E i \in 1..Cardinality(S) : s[i] = x}

Readable(eng, n) == Exists(eng, n) /\ ~eng[n].broken

Polygonal == {ST_Polygon, ST_MultiPolygon}

\* topological dimension of the rows of an engine geometry type
DimOfType(t) ==
  CASE t \in {ST_Point} -> 0
    [] t \in {ST_LineString, ST_MultiLineString} -> 1
    [] OTHER -> 2

\* ST_Dump gives singlepart parts; ST_Dimension keeps those of dimension dim
PartType(dim) == CASE dim = 0 -> ST_Point [] dim = 1 -> ST_LineString [] OTHER -> ST_Polygon

\* The footprint of a polygonal geometry is the set of unit squares <<x, y>>
\* it covers; geoms holds the footprints of a relation's polygonal rows.
\* two squares with a point in common: the same, side by side, or corner to corner
Near(s, t) == (s[1] - t[1]) \in -1..1 /\ (s[2] - t[2]) \in -1..1

\* two squares with a side in common
SideBySide(s, t) ==
  \/ s[1] = t[1] /\ (s[2] - t[2]) \in {-1, 1}
  \/ s[2] = t[2] /\ (s[1] - t[1]) \in {-1, 1}

\* ST_DWithin(g, h, 0): the geometries have a point in common
Touching(g, h) == \E s \in g, t \in h : Near(s, t)

RECURSIVE Grow(_, _)
Grow(part, S) ==
  LET more == part \cup {t \in S : \E s \in part : SideBySide(s, t)}
  IN  IF more = part THEN part ELSE Grow(more, S)

\* ST_Dump of a polygonal geometry: its singlepart polygons
Parts(S) == {Grow({s}, S) : s \in S}

RECURSIVE GrowCluster(_, _)
GrowCluster(C, G) ==
  LET more == C \cup {h \in G : \E g \in C : Touching(g, h)}
  IN  IF more = C THEN C ELSE GrowCluster(more, G)

\* ST_ClusterDBSCAN(geometry, 0, 1): the rows that hang together through
\* geometries having a point in common
Clusters(G) == {GrowCluster({g}, G) : g \in G}

Dissolved_nodump(G) == {UNION C : C \in Clusters(G)}

\* (ST_Dump(ST_Union(geometry))).geom ... GROUP BY _clst
Dissolved(G) == UNION {Parts(UNION C) : C \in Clusters(G)}

\* the parts of dimension 2 of (ST_Dump(ST_Intersection(a.geometry, b.geometry)))
\* over the joined rows
Clipped(A, B) == UNION {Parts(g \cap h) : g \in A, h \in B}

\* the dimension of what two polygons that meet without overlapping have in
\* common: a stretch of boundary (1) or isolated points (0)
TouchDimension(g, h) == IF \E s \in g, t \in h : SideBySide(s, t) THEN 1 ELSE 0

\* (ST_Dump(ST_Intersection(a.geometry, b.geometry))).geom over the rows joined
\* ON ST_Intersects(a.geometry, b.geometry): the pieces, each with its dimension
Fragments(A, B) ==
  {[dim |-> 2, cells |-> p] : p \in Clipped(A, B)}
  \cup {[dim |-> TouchDimension(pair[1], pair[2]), cells |-> {}] :
          pair \in {q \in A \X B : q[1] \cap q[2] = {} /\ Touching(q[1], q[2])}}

WhereDimension_all(F, dim) == F

\* WHERE ST_Dimension(clipped.geometry) = {dim}
WhereDimension(F, dim) == {f \in F : f.dim = dim}

Fail(eng) == [ok |-> FALSE, eng |-> eng, rows |-> <<>>]

\* SELECT DISTINCT ST_SRID(geometry) FROM public."{relation}"
EngSelectSrid(eng, relation, order) ==
  IF ~Readable(eng, relation) THEN Fail(eng)
  ELSE [ok |-> TRUE, eng |-> eng, rows |-> [i \in DOMAIN order |-> <<order[i]>>]]

\* SELECT DISTINCT ST_GeometryType(geometry) FROM public."{relation}"
EngSelectTypes(eng, relation, order) ==
  IF ~Readable(eng, relation) THEN Fail(eng)
  ELSE [ok |-> TRUE, eng |-> eng, rows |-> [i \in DOMAIN order |-> <<order[i]>>]]

\* CREATE INDEX {relation}_geom_idx ON public."{relation}" USING GIST (geometry)
EngCreateIndex(eng, relation) ==
  IF \/ ~Exists(eng, relation)
     \/ eng[relation].kind # k_TABLE
     \/ IndexName(relation) \in AllIndexes(eng)
     \/ Exists(eng, IndexName(relation))
  THEN Fail(eng)
  ELSE [ok |-> TRUE, rows |-> <<>>,
        eng |-> [eng EXCEPT ![relation].idx = @ \cup {IndexName(relation)}]]

\* CREATE {relation_type} public."{relation}" AS (SELECT ... {fields}, (ST_Dump(
\* ST_Intersection(a.geometry, b.geometry))).geom ... INNER JOIN ... ON
\* ST_Intersects ... WHERE ST_Dimension(clipped.geometry) = {dim})
\* srids: the SRIDs of the kept parts, which the geometries decide.
EngCreateIntersection(eng, relation_type, relation, fields, relation_a, relation_b, dim, srids) ==
  LET a == eng[relation_a]
      b == eng[relation_b]
      unreadable == ~Readable(eng, relation_a) \/ ~Readable(eng, relation_b)
      possible == {s \in a.srids \cap b.srids :
                     \E ta \in a.types, tb \in b.types :
                        dim <= DimOfType(ta) /\ dim <= DimOfType(tb)}
      frags == WhereDimension(Fragments(a.geoms, b.geoms), dim)
      kept == IF dim = 2 /\ frags = {} THEN {} ELSE srids \cap possible
  IN  IF \/ relation \notin DOMAIN eng
         \/ Exists(eng, relation)
         \/ ~Exists(eng, relation_a)
         \/ ~Exists(eng, relation_b)
         \/ fields = ""
         \/ (relation_type = k_TABLE /\ unreadable)
      THEN Fail(eng)
      ELSE [ok |-> TRUE, rows |-> <<>>,
            eng |-> [eng EXCEPT ![relation] =
              [kind |-> relation_type,
               srids |-> IF unreadable THEN {} ELSE kept,
               types |-> IF unreadable \/ kept = {} THEN {}
                         ELSE IF dim = 2 THEN {PartType(f.dim) : f \in frags}
                         ELSE {PartType(dim)},
               geoms |-> IF unreadable \/ kept = {} THEN {}
                         ELSE {f.cells : f \in {x \in frags : x.dim = 2}},
               idx |-> {},
               deps |-> IF relation_type = k_VIEW THEN {relation_a, relation_b} ELSE {},
               origin |-> "intersection",
               broken |-> unreadable]]]

\* CREATE {relation_type} public."{out_name}" AS (SELECT ..., (ST_Dump(ST_Union(
\* geometry))).geom::geometry(Polygon, {srid}) ... ST_ClusterDBSCAN(geometry, 0, 1)
\* ... UNION ALL ... GROUP BY _clst)
EngCreateDissolve(eng, relation_type, out_name, srid, relation_a, relation_b) ==
  LET a == eng[relation_a]
      b == eng[relation_b]
      unreadable == ~Readable(eng, relation_a) \/ ~Readable(eng, relation_b)
      castfails == \/ unreadable
                   \/ ~((a.types \cup b.types) \subseteq Polygonal)
                   \/ ~((a.srids \cup b.srids) \subseteq {srid})
      empty == a.srids \cup b.srids = {}
  IN  IF \/ out_name \notin DOMAIN eng
         \/ Exists(eng, out_name)
         \/ ~Exists(eng, relation_a)
         \/ ~Exists(eng, relation_b)
         \/ (relation_type = k_TABLE /\ castfails)
      THEN Fail(eng)
      ELSE [ok |-> TRUE, rows |-> <<>>,
            eng |-> [eng EXCEPT ![out_name] =
              [kind |-> relation_type,
               srids |-> IF castfails \/ empty THEN {} ELSE {srid},
               types |-> IF castfails \/ empty THEN {} ELSE {ST_Polygon},
               geoms |-> IF castfails \/ empty THEN {} ELSE Dissolved(a.geoms \cup b.geoms),
               idx |-> {},
               deps |-> IF relation_type = k_VIEW THEN {relation_a, relation_b} ELSE {},
               origin |-> "dissolve",
               broken |-> castfails]]]

\* DROP TABLE public."{relation_b}"; ALTER TABLE public."{relation}" RENAME TO
\* "{relation_b}";   one simple-query message: both statements or neither.
EngDropRename(eng, relation_b, relation) ==
  IF \/ ~Exists(eng, relation_b)
     \/ eng[relation_b].kind # k_TABLE
     \/ Dependents(eng, relation_b) # {}
     \/ ~Exists(eng, relation)
     \/ relation = relation_b
  THEN Fail(eng)
  ELSE [ok |-> TRUE, rows |-> <<>>,
        eng |-> [n \in DOMAIN eng |->
                   IF n = relation THEN NoRel
                   ELSE LET r == IF n = relation_b THEN eng[relation] ELSE eng[n]
                        IN  IF r.kind = <<>> THEN r
                            ELSE [r EXCEPT !.deps =
                                    (@ \ {relation}) \cup
                                    (IF relation \in @ THEN {relation_b} ELSE {})]]]

\* DROP {relation_type} IF EXISTS public."{relation}" CASCADE
EngDropRelation(eng, relation_type, relation) ==
  IF Exists(eng, relation) /\ eng[relation].kind # Upper(relation_type)
  THEN Fail(eng)
  ELSE [ok |-> TRUE, rows |-> <<>>,
        eng |-> [n \in DOMAIN eng |->
                   IF n \in CascadeSet(eng, {relation}) THEN NoRel ELSE eng[n]]]

MultiOf_always(t) == ST_ \o Multi \o Tail_(t, 3)

\* ST_Multi on a geometry, by the name of its type
MultiOf(t) ==
  IF t \in {ST_Point, ST_LineString, ST_Polygon} THEN ST_ \o Multi \o Tail_(t, 3) ELSE t

\* UPDATE public."{relation}" SET geometry = ST_Multi(geometry)
EngSingleToMulti(eng, relation, srid) ==
  IF \/ ~Exists(eng, relation)
     \/ eng[relation].kind # k_TABLE
  THEN Fail(eng)
  ELSE [ok |-> TRUE, rows |-> <<>>,
        eng |-> [eng EXCEPT ![relation].types = {MultiOf(t) : t \in @}]]

\* ALTER TABLE public."{relation}" ALTER COLUMN geometry
\* TYPE Geometry({geometry_type}, {srid}) USING ST_Transform(geometry, {srid})
EngAlterSrid(eng, relation, geometry_type, srid) ==
  IF \/ ~Exists(eng, relation)
     \/ eng[relation].kind # k_TABLE
     \/ Dependents(eng, relation) # {}
     \/ ~(eng[relation].types \subseteq {ST_ \o geometry_type})
  THEN Fail(eng)
  ELSE [ok |-> TRUE, rows |-> <<>>,
        eng |-> [eng EXCEPT ![relation].srids = IF @ = {} THEN {} ELSE {srid}]]

\* ALTER ... TYPE Geometry({geometry_type}Z, {srid}) USING ST_Transform; ADD
\* COLUMN geometry2d; UPDATE ... ST_Force2D(geometry); DROP geometry; RENAME
\* geometry2d TO geometry.  hasz: the stored geometries carry a third ordinate
\* (the cast to a Z type fails otherwise); the index on the dropped column goes.
EngForce2D(eng, relation, geometry_type, srid, hasz) ==
  IF \/ ~Exists(eng, relation)
     \/ eng[relation].kind # k_TABLE
     \/ Dependents(eng, relation) # {}
     \/ ~(eng[relation].types \subseteq {ST_ \o geometry_type})
     \/ ~hasz
  THEN Fail(eng)
  ELSE [ok |-> TRUE, rows |-> <<>>,
        eng |-> [eng EXCEPT ![relation].srids = IF @ = {} THEN {} ELSE {srid},
                            ![relation].idx = {}]]

\* The engine's answer to one statement; sel is what the stored geometries and
\* the planner decide (row order of a SELECT DISTINCT, SRIDs of kept parts).
Engine(eng, stmt, sel) ==
  LET p == stmt.p
  IN  CASE stmt.path -> Fail(eng)
        [] stmt.sql = "select_srid.sql" -> EngSelectSrid(eng, p[1], sel)
        [] stmt.sql = "select_distinct_geometry_type.sql" -> EngSelectTypes(eng, p[1], sel)
        [] stmt.sql = "create_spatial_index.sql" -> EngCreateIndex(eng, p[1])
        [] stmt.sql = "create_intersection_geometries.sql" ->
             EngCreateIntersection(eng, p[1], p[2], p[3], p[4], p[5], p[6], sel)
        [] stmt.sql = "create_dissolve_geometries.sql" ->
             EngCreateDissolve(eng, p[1], p[2], p[3], p[4], p[5])
        [] stmt.sql = "drop_relation.sql" -> EngDropRelation(eng, p[1], p[2])
        [] stmt.sql = "drop_rename" -> EngDropRename(eng, p[1], p[2])
        [] stmt.sql = "singlepart_to_multipart.sql" -> EngSingleToMulti(eng, p[1], p[2])
        [] stmt.sql = "alter_geometry_srid.sql" -> EngAlterSrid(eng, p[1], p[2], p[3])
        [] stmt.sql = "alter_geometry_force_2d.sql" ->
             EngForce2D(eng, p[1], p[2], p[3], sel)
        [] OTHER -> Fail(eng)

\* what the engine may decide for a statement
Sels(eng, stmt) ==
  LET p == stmt.p
  IN  CASE stmt.path -> {<<>>}
        [] stmt.sql = "select_srid.sql" ->
             IF Readable(eng, p[1]) THEN Orders(eng[p[1]].srids) ELSE {<<>>}
        [] stmt.sql = "select_distinct_geometry_type.sql" ->
             IF Readable(eng, p[1]) THEN Orders(eng[p[1]].types) ELSE {<<>>}
        [] stmt.sql = "create_intersection_geometries.sql" ->
             IF Readable(eng, p[4]) /\ Readable(eng, p[5])
               THEN IF p[6] = 2 /\ Clipped(eng[p[4]].geoms, eng[p[5]].geoms) # {}
                           /\ eng[p[4]].srids \cap eng[p[5]].srids # {}
                      THEN (SUBSET (eng[p[4]].srids \cap eng[p[5]].srids)) \ {{}}
                      ELSE SUBSET (eng[p[4]].srids \cap eng[p[5]].srids)
               ELSE {{}}
        [] stmt.sql = "alter_geometry_force_2d.sql" -> BOOLEAN
        [] OTHER -> {<<>>}

\* ------------------------------------------------------------ SqlProcessor
TemplateNames ==
  {"select_srid.sql", "select_distinct_geometry_type.sql", "create_spatial_index.sql",
   "create_intersection_geometries.sql", "create_dissolve_geometries.sql",
   "drop_relation.sql", "singlepart_to_multipart.sql", "alter_geometry_srid.sql",
   "alter_geometry_force_2d.sql"}

\* a str holding SQL text with its placeholders, or the path of a file
Text(sql, p) == [sql |-> sql, p |-> p, path |-> FALSE]

\* os.path.join(self.sql_directory, name)
Path(name) == [sql |-> name, p |-> <<>>, path |-> TRUE]

\* query.format(*parameters)
Format(text, parameters) == [text EXCEPT !.p = @ \o parameters]

\* the events of a call, in order
EvRead(query) == [e |-> "read", q |-> query]
EvConnect == [e |-> "connect"]
EvExecute(stmt, ok, fault) == [e |-> "execute", stmt |-> stmt, ok |-> ok, fault |-> fault]
EvRelease == [e |-> "release"]
EvFetch(rows) == [e |-> "fetch", rows |-> rows]

XqFail(eng, err, ev) == [err |-> err, ev |-> ev, eng |-> eng, rows |-> <<>>]

UnsupportedMode_none(mode) == FALSE

\* mode.lower() not in ("file", "string")
UnsupportedMode(mode) == Lower(mode) \notin {m_file, m_string}

NoSqlDirectory_never(mode, sqldir) == FALSE

\* mode.lower() == "file" and self.sql_directory is None
NoSqlDirectory(mode, sqldir) == Lower(mode) = m_file /\ sqldir = None

Connect_held(eng, read, stmt, fault, r) ==
  IF fault \/ ~r.ok
    THEN XqFail(eng, "EngineRaised",
                read \o <<EvConnect, EvExecute(stmt, FALSE, fault), EvRelease>>)
    ELSE [err |-> "", eng |-> r.eng, rows |-> r.rows,
          ev |-> read \o <<EvConnect, EvExecute(stmt, TRUE, FALSE)>>]

Connect_leak(eng, read, stmt, fault, r) ==
  IF fault \/ ~r.ok
    THEN XqFail(eng, "EngineRaised", read \o <<EvConnect, EvExecute(stmt, FALSE, fault)>>)
    ELSE [err |-> "", eng |-> r.eng, rows |-> r.rows,
          ev |-> read \o <<EvConnect, EvExecute(stmt, TRUE, FALSE), EvRelease>>]

\* with self.engine.connect()... as conn: result = conn.execute(query)
\* r: the engine's answer; fault: the engine raises whatever the statement
Connect(eng, read, stmt, fault, r) ==
  IF fault \/ ~r.ok
    THEN XqFail(eng, "EngineRaised",
                read \o <<EvConnect, EvExecute(stmt, FALSE, fault), EvRelease>>)
    ELSE [err |-> "", eng |-> r.eng, rows |-> r.rows,
          ev |-> read \o <<EvConnect, EvExecute(stmt, TRUE, FALSE), EvRelease>>]

Run(eng, read, stmt, sel, fault) == Connect(eng, read, stmt, fault, Engine(eng, stmt, sel))

\* SqlProcessor.execute_query: [err, ev, eng, rows]
execute_query(sqldir, eng, mode, query, parameters, sel, fault) ==
  IF UnsupportedMode(mode)
    THEN XqFail(eng, "ValueError: not a supported mode", <<>>)
  ELSE IF NoSqlDirectory(mode, sqldir)
    THEN XqFail(eng, "ValueError: no SQL directory", <<>>)
  ELSE IF Lower(mode) = m_file /\ ~(query.path /\ query.sql \in TemplateNames)
    THEN XqFail(eng, "FileNotFoundError", <<>>)
  ELSE IF Lower(mode) = m_file
    THEN Run(eng, <<EvRead(query)>>, Format([query EXCEPT !.path = FALSE], parameters),
             sel, fault)
  ELSE Run(eng, <<>>, Format(query, parameters), sel, fault)

\* the statement execute_query hands to the engine in file mode
StmtOf(name, parameters) == Format(Text(name, <<>>), parameters)

\* self.execute_query("file", join(self.sql_directory, name), *parameters)
xq_file(sqldir, eng, name, parameters, sel, fault) ==
  IF sqldir = None
    THEN XqFail(eng, "TypeError: join", <<>>)
    ELSE execute_query(sqldir, eng, m_file, Path(name), parameters, sel, fault)

First_last(r) ==
  IF r.err # "" THEN [err |-> r.err, ev |-> r.ev, eng |-> r.eng, val |-> 0]
  ELSE IF r.rows = <<>>
    THEN [err |-> "TypeError: NoneType", ev |-> r.ev \o <<EvFetch(r.rows)>>,
          eng |-> r.eng, val |-> 0]
  ELSE [err |-> "", ev |-> r.ev \o <<EvFetch(r.rows)>>, eng |-> r.eng,
        val |-> r.rows[Len(r.rows)][1]]

\* srid.first()[0]
First(r) ==
  IF r.err # "" THEN [err |-> r.err, ev |-> r.ev, eng |-> r.eng, val |-> 0]
  ELSE IF r.rows = <<>>
    THEN [err |-> "TypeError: NoneType", ev |-> r.ev \o <<EvFetch(r.rows)>>,
          eng |-> r.eng, val |-> 0]
  ELSE [err |-> "", ev |-> r.ev \o <<EvFetch(r.rows)>>, eng |-> r.eng, val |-> r.rows[1][1]]

\* SqlProcessor.get_srid: [err, ev, eng, val]
get_srid(sqldir, eng, relation, sel, fault) ==
  First(xq_file(sqldir, eng, "select_srid.sql", <<relation>>, sel, fault))

\* the mapping of the flattened rows
MapTypes(r, geometry_types, allow_multi) ==
  IF has_single_geometry_type(geometry_types)
    THEN IF geometry_types = <<>>
           THEN [err |-> "IndexError", ev |-> r.ev \o <<EvFetch(r.rows)>>,
                 eng |-> r.eng, val |-> <<>>]
           ELSE convert_st_to_type(geometry_types[1], allow_multi)
                  @@ [ev |-> r.ev \o <<EvFetch(r.rows)>>, eng |-> r.eng]
    ELSE [err |-> "ValueError: more than one geometry type",
          ev |-> r.ev \o <<EvFetch(r.rows)>>, eng |-> r.eng, val |-> <<>>]

Mapped(r, allow_multi) ==
  IF r.err # "" THEN [err |-> r.err, ev |-> r.ev, eng |-> r.eng, val |-> <<>>]
  ELSE MapTypes(r, flatten(r.rows), allow_multi)

\* SqlProcessor.map_geometry_type: [err, ev, eng, val]
map_geometry_type(sqldir, eng, relation, allow_multi, sel, fault) ==
  Mapped(xq_file(sqldir, eng, "select_distinct_geometry_type.sql", <<relation>>,
                 sel, fault), allow_multi)

create_spatial_index_ifnew(sqldir, eng, relation, fault) ==
  IF Exists(eng, relation) /\ IndexName(relation) \in eng[relation].idx
    THEN [err |-> "", ev |-> <<>>, eng |-> eng, rows |-> <<>>]
    ELSE xq_file(sqldir, eng, "create_spatial_index.sql", <<relation>>, <<>>, fault)

\* SqlProcessor.create_spatial_index: [err, ev, eng, rows]
create_spatial_index(sqldir, eng, relation, fault) ==
  xq_file(sqldir, eng, "create_spatial_index.sql", <<relation>>, <<>>, fault)

\* ", ".join(fields_a + fields_b) with each field qualified and quoted
RECURSIVE JoinFields(_)
JoinFields(fields) ==
  IF fields = <<>> THEN ""
  ELSE IF Len(fields) = 1 THEN fields[1]
  ELSE fields[1] \o ", " \o JoinFields(Tail(fields))

Qualify(alias, fields) == [i \in DOMAIN fields |-> alias \o ".\"" \o fields[i] \o "\""]

\* ------------------------------------------------------- the call in progress
\* One caller: the operation, its arguments, the engine call it is at, the
\* events so far, the exception raised ("" if none), its locals, and the
\* relations as they were when it started.
NoCall ==
  [op |-> "none", args |-> <<>>, pc |-> "done", log |-> <<>>, err |-> "",
   srid_a |-> 0, srid_b |-> 0, srid |-> 0, gtype |-> <<>>, i |-> 1, ret |-> <<>>, pre |-> <<>>]

Begin(op, args, pc, eng) == [NoCall EXCEPT !.op = op, !.args = args, !.pc = pc, !.pre = eng]

Raise(c, ev, err) == [c EXCEPT !.log = @ \o ev, !.err = err, !.pc = "done"]

Goto(c, ev, pc) == [c EXCEPT !.log = @ \o ev, !.pc = pc]

\* ---- intersect_geometries
is_same_srid_always(srid_a, srid_b) == TRUE

\* srid_a == srid_b
is_same_srid(srid_a, srid_b) == srid_a = srid_b

\* relation = f"{relation_b}_tmp" if out_name is None else out_name
Relation(relation_b, out_name) == IF out_name = None THEN TmpName(relation_b) ELSE out_name

\* relation_type = "VIEW" if as_view else "TABLE"
RelationType(as_view) == IF as_view THEN k_VIEW ELSE k_TABLE

NeedsIndex_any(build_index, relation_type) == build_index

\* build_index and relation_type == "TABLE"
NeedsIndex(build_index, relation_type) == build_index /\ relation_type = k_TABLE

\* relation_b if out_name is None else out_name
IndexTarget(relation_b, out_name) == IF out_name = None THEN relation_b ELSE out_name

IntersectFields(args) ==
  JoinFields(Qualify("a", args.fields_a) \o Qualify("b", args.fields_b))

IntersectParams(c) ==
  <<RelationType(c.args.as_view), Relation(c.args.relation_b, c.args.out_name),
    IntersectFields(c.args), c.args.relation_a, c.args.relation_b,
    IF c.gtype \in DOMAIN DIMENSION THEN DIMENSION[c.gtype] ELSE 0>>

AfterCreate(c) ==
  IF NeedsIndex(c.args.build_index, RelationType(c.args.as_view)) THEN "index" ELSE "done"

\* srid_a = self.get_srid(relation_a)
I_SridA(c, g) ==
  IF g.err # "" THEN [c |-> Raise(c, g.ev, g.err), eng |-> g.eng]
  ELSE [c |-> [Goto(c, g.ev, "srid_b") EXCEPT !.srid_a = g.val], eng |-> g.eng]

\* srid_b = self.get_srid(relation_b); if not same: raise ValueError
I_SridB(c, g) ==
  IF g.err # "" THEN [c |-> Raise(c, g.ev, g.err), eng |-> g.eng]
  ELSE IF ~is_same_srid(c.srid_a, g.val)
    THEN [c |-> [Raise(c, g.ev, "ValueError: not the same SRID")
                   EXCEPT !.srid_b = g.val], eng |-> g.eng]
  ELSE [c |-> [Goto(c, g.ev, "type_b") EXCEPT !.srid_b = g.val], eng |-> g.eng]

I_TypeB_nolookup(c, m) ==
  IF m.err # "" THEN [c |-> Raise(c, m.ev, m.err), eng |-> m.eng]
  ELSE [c |-> [Goto(c, m.ev, "create") EXCEPT !.gtype = m.val], eng |-> m.eng]

\* geometry_type_b = self.map_geometry_type(relation_b, False); DIMENSION[...]
I_TypeB(c, m) ==
  IF m.err # "" THEN [c |-> Raise(c, m.ev, m.err), eng |-> m.eng]
  ELSE IF m.val \notin DOMAIN DIMENSION
    THEN [c |-> [Raise(c, m.ev, "KeyError") EXCEPT !.gtype = m.val], eng |-> m.eng]
  ELSE [c |-> [Goto(c, m.ev, "create") EXCEPT !.gtype = m.val], eng |-> m.eng]

I_Create_alwaysreplace(c, r) ==
  IF r.err # "" THEN [c |-> Raise(c, r.ev, r.err), eng |-> r.eng]
  ELSE [c |-> Goto(c, r.ev, "replace"), eng |-> r.eng]

I_Create_goon(c, r) ==
  [c |-> Goto(c, r.ev, IF c.args.out_name = None THEN "replace" ELSE AfterCreate(c)),
   eng |-> r.eng]

I_Create_skipreplace(c, r) ==
  IF r.err # "" THEN [c |-> Raise(c, r.ev, r.err), eng |-> r.eng]
  ELSE [c |-> Goto(c, r.ev, AfterCreate(c)), eng |-> r.eng]

\* self.execute_query("file", ".../create_intersection_geometries.sql", ...)
I_Create(c, r) ==
  IF r.err # "" THEN [c |-> Raise(c, r.ev, r.err), eng |-> r.eng]
  ELSE [c |-> Goto(c, r.ev, IF c.args.out_name = None THEN "replace" ELSE AfterCreate(c)),
        eng |-> r.eng]

ReplaceQuery(c) ==
  Text("drop_rename", <<c.args.relation_b, Relation(c.args.relation_b, c.args.out_name)>>)

I_Replace_goon(c, r) == [c |-> Goto(c, r.ev, AfterCreate(c)), eng |-> r.eng]

\* self.execute_query("string", query)
I_Replace(c, r) ==
  IF r.err # "" THEN [c |-> Raise(c, r.ev, r.err), eng |-> r.eng]
  ELSE [c |-> Goto(c, r.ev, AfterCreate(c)), eng |-> r.eng]

\* self.create_spatial_index(...)
I_Index(c, r) == [c |-> Raise(c, r.ev, r.err), eng |-> r.eng]

\* ---- dissolve_geometries
DissolveParams(c) ==
  <<RelationType(c.args.as_view), c.args.out_name, c.srid,
    c.args.relation_a, c.args.relation_b>>

D_SridA(c, g) ==
  IF g.err # "" THEN [c |-> Raise(c, g.ev, g.err), eng |-> g.eng]
  ELSE [c |-> [Goto(c, g.ev, "srid_b") EXCEPT !.srid_a = g.val], eng |-> g.eng]

D_SridB_skip(c, g) ==
  IF g.err # "" THEN [c |-> Raise(c, g.ev, g.err), eng |-> g.eng]
  ELSE IF ~is_same_srid(c.srid_a, g.val)
    THEN [c |-> [Raise(c, g.ev, "ValueError: not the same SRID")
                   EXCEPT !.srid_b = g.val], eng |-> g.eng]
  ELSE [c |-> [Goto(c, g.ev, "create") EXCEPT !.srid_b = g.val, !.srid = c.srid_a],
        eng |-> g.eng]

D_SridB(c, g) ==
  IF g.err # "" THEN [c |-> Raise(c, g.ev, g.err), eng |-> g.eng]
  ELSE IF ~is_same_srid(c.srid_a, g.val)
    THEN [c |-> [Raise(c, g.ev, "ValueError: not the same SRID")
                   EXCEPT !.srid_b = g.val], eng |-> g.eng]
  ELSE [c |-> [Goto(c, g.ev, "srid") EXCEPT !.srid_b = g.val], eng |-> g.eng]

\* srid = self.get_srid(relation_a)
D_Srid(c, g) ==
  IF g.err # "" THEN [c |-> Raise(c, g.ev, g.err), eng |-> g.eng]
  ELSE [c |-> [Goto(c, g.ev, "create") EXCEPT !.srid = g.val], eng |-> g.eng]

D_Create(c, r) ==
  IF r.err # "" THEN [c |-> Raise(c, r.ev, r.err), eng |-> r.eng]
  ELSE [c |-> Goto(c, r.ev, AfterCreate(c)), eng |-> r.eng]

D_Index(c, r) == [c |-> Raise(c, r.ev, r.err), eng |-> r.eng]

\* ---- drop_relations
InvalidRelationType_never(relation_type) == FALSE

\* relation_type.upper() not in ("TABLE", "VIEW")
InvalidRelationType(relation_type) == Upper(relation_type) \notin {k_TABLE, k_VIEW}

\* the check before the loop; an empty `relations` ends the call
R_Check(c) ==
  IF InvalidRelationType(c.args.relation_type)
    THEN Raise(c, <<>>, "ValueError: not a valid relation type")
    ELSE Goto(c, <<>>, IF c.args.relations = <<>> THEN "done" ELSE "loop")

DropParams(c) == <<c.args.relation_type, c.args.relations[c.i], "CASCADE">>

R_Loop_goon(c, r) ==
  [c |-> [Goto(c, r.ev, IF c.i = Len(c.args.relations) THEN "done" ELSE "loop")
            EXCEPT !.i = @ + 1,
                   !.err = IF r.err # "" THEN "ValueError: could not be dropped" ELSE @,
                   !.ret = IF r.err # "" THEN <<c.args.relations[c.i]>> ELSE @],
   eng |-> r.eng]

\* one turn of `for relation in relations`: try: execute_query(...) except: raise
\* ValueError; ret holds the name that could not be dropped
R_Loop(c, r) ==
  IF r.err # ""
    THEN [c |-> [Raise(c, r.ev, "ValueError: could not be dropped")
                   EXCEPT !.ret = <<c.args.relations[c.i]>>],
          eng |-> r.eng]
    ELSE [c |-> [Goto(c, r.ev, IF c.i = Len(c.args.relations) THEN "done" ELSE "loop")
                   EXCEPT !.i = @ + 1],
          eng |-> r.eng]

\* ---- singlepart_to_multipart
\* srid = self.get_srid(relation)
S_Srid(c, g) ==
  IF g.err # "" THEN [c |-> Raise(c, g.ev, g.err), eng |-> g.eng]
  ELSE [c |-> [Goto(c, g.ev, "update") EXCEPT !.srid = g.val], eng |-> g.eng]

S_Update(c, r) == [c |-> Raise(c, r.ev, r.err), eng |-> r.eng]

\* ---- project_geometry
\* geometry_type = self.map_geometry_type(relation)
P_Type(c, m) ==
  IF m.err # "" THEN [c |-> Raise(c, m.ev, m.err), eng |-> m.eng]
  ELSE [c |-> [Goto(c, m.ev, "alter") EXCEPT !.gtype = m.val], eng |-> m.eng]

ProjectParams(c) == <<c.args.relation, c.gtype, c.args.srid>>

P_Alter(c, r) == [c |-> Raise(c, r.ev, r.err), eng |-> r.eng]

\* ---- project_3d_to_2d
\* geometry_type = self.map_geometry_type(relation)
F_Type(c, m) ==
  IF m.err # "" THEN [c |-> Raise(c, m.ev, m.err), eng |-> m.eng]
  ELSE [c |-> [Goto(c, m.ev, "alter") EXCEPT !.gtype = m.val], eng |-> m.eng]

F_Alter(c, r) == [c |-> Raise(c, r.ev, r.err), eng |-> r.eng]

\* ---- map_geometry_type, create_spatial_index, execute_query called directly
M_Query(c, m) == [c |-> [Raise(c, m.ev, m.err) EXCEPT !.ret = m.val], eng |-> m.eng]

X_Index(c, r) == [c |-> Raise(c, r.ev, r.err), eng |-> r.eng]

Q_Run(c, r) == [c |-> [Raise(c, r.ev, r.err) EXCEPT !.ret = r.rows], eng |-> r.eng]

\* the statement a direct execute_query call hands over, when it gets that far
Q_Stmt(c) ==
  Format([c.args.query EXCEPT !.path =
            IF Lower(c.args.mode) = m_file THEN FALSE ELSE @], c.args.parameters)

\* ------------------------------------------------------------------ inputs
Loaded(srids, types) ==
  [kind |-> k_TABLE, srids |-> srids, types |-> types, geoms |-> {}, idx |-> {},
   deps |-> {}, origin |-> "load", broken |-> FALSE]

\* the footprints of the polygonal rows loaded into "a" and into "b": some
\* overlap, some have a side in common, some only a corner, one lies apart
Footprints(name, types) ==
  IF types = {} \/ ~(types \subseteq Polygonal) THEN {}
  ELSE IF name = "a"
    THEN IF types = {ST_Polygon}
           THEN {{<<0, 0>>}, {<<3, 1>>}, {<<5, 0>>}}
           ELSE {{<<0, 0>>, <<3, 1>>}, {<<5, 0>>}}
  ELSE IF types = {ST_Polygon} THEN {{<<0, 0>>, <<1, 0>>}, {<<2, 1>>}}
  ELSE IF types = {ST_MultiPolygon} THEN {{<<0, 0>>, <<1, 0>>, <<2, 1>>}}
  ELSE {{<<0, 0>>, <<1, 0>>}, {<<2, 1>>, <<5, 1>>}}

Place(name, rel) == [rel EXCEPT !.geoms = Footprints(name, rel.types)]

P2154 == Loaded({2154}, {ST_Polygon})

\* what relations "a" and "b" hold at the start
Loads ==
  {<<P2154, P2154>>,
   <<P2154, Loaded({2154}, {ST_MultiPolygon})>>,
   <<P2154, Loaded({2154}, {ST_Polygon, ST_MultiPolygon})>>,
   <<P2154, Loaded({}, {})>>,
   <<P2154, Loaded({2154}, {ST_LineString})>>,
   <<P2154, Loaded({2154}, {ST_GeometryCollection})>>,
   <<Loaded({4326}, {ST_Polygon}), P2154>>,
   <<Loaded({4326}, {ST_Polygon}), Loaded({2154}, {ST_Polygon, ST_MultiPolygon})>>,
   <<Loaded({2154, 4326}, {ST_MultiPolygon}), P2154>>,
   <<P2154, Loaded({2154, 4326}, {ST_Polygon})>>}

\* fields_a, fields_b
FieldLists == {<<<<>>, <<>>>>, <<<<"id">>, <<>>>>, <<<<>>, <<"id">>>>}

DropNames == {"b", "c"}

OutNames == {None, "c"}

TargetSrids == {2154, 4326}

Modes == {m_file, m_string, m_FILE, m_String, m_direct, m_template}

RelationTypes == {k_TABLE, k_VIEW, k_table, k_INDEX}

GeometryStrings ==
  {ST_Point, ST_LineString, ST_Polygon, ST_MultiPolygon, ST_MultiLineString,
   ST_GeometryCollection, ST_, ST_ \o Multi, ST_ \o Multi \o Multi \o Point,
   XY_ \o Polygon, Polygon, Multi \o Polygon, <<>>, <<"S", "T">>,
   <<"s", "t", "_">> \o Polygon, ST_ \o <<"M", "u", "l", "t">>,
   ST_ \o Polygon \o Multi, Multi \o ST_ \o Polygon}

RECURSIVE SeqsUpTo(_, _)
SeqsUpTo(S, n) ==
  IF n = 0 THEN {<<>>}
  ELSE SeqsUpTo(S, n - 1) \cup
       {Append(s, x) : s \in {t \in SeqsUpTo(S, n - 1) : Len(t) = n - 1}, x \in S}

Queries ==
  {[query |-> Path("select_srid.sql"), parameters |-> <<"a">>],
   [query |-> Path("missing.sql"), parameters |-> <<>>],
   [query |-> Text("select_srid.sql", <<>>), parameters |-> <<"b">>]}

\* ------------------------------------------------------------- the machine
Init ==
  /\ \E l \in Loads :
       /\ rels = [n \in AllNames |->
                   IF n = "a" THEN Place("a", l[1])
                   ELSE IF n = "b" THEN Place("b", l[2]) ELSE NoRel]
       /\ sql_directory \in (IF l = <<P2154, P2154>> THEN {"sql", None} ELSE {"sql"})
  /\ call = NoCall
  /\ ncalls = 0
  /\ last = None
  /\ other = NoCall

CanStart == call = NoCall /\ ncalls < MaxCalls

Start(c) ==
  call' = c /\ ncalls' = ncalls + 1 /\ UNCHANGED <<rels, sql_directory, last, other>>

Do(r) == call' = r.c /\ rels' = r.eng /\ UNCHANGED <<sql_directory, ncalls, last, other>>

At(op, pc) == call.op = op /\ call.pc = pc

StartIntersect ==
  /\ CanStart
  /\ \E f \in FieldLists, v \in BOOLEAN, o \in OutNames, bi \in BOOLEAN :
       Start(Begin("intersect_geometries",
                   [relation_a |-> "a", relation_b |-> "b", fields_a |-> f[1],
                    fields_b |-> f[2], as_view |-> v, out_name |-> o, build_index |-> bi],
                   "srid_a", rels))

IntersectSridA ==
  /\ At("intersect_geometries", "srid_a")
  /\ \E fault \in BOOLEAN,
        sel \in Sels(rels, StmtOf("select_srid.sql", <<call.args.relation_a>>)) :
       Do(I_SridA(call, get_srid(sql_directory, rels, call.args.relation_a, sel, fault)))

IntersectSridB ==
  /\ At("intersect_geometries", "srid_b")
  /\ \E fault \in BOOLEAN,
        sel \in Sels(rels, StmtOf("select_srid.sql", <<call.args.relation_b>>)) :
       Do(I_SridB(call, get_srid(sql_directory, rels, call.args.relation_b, sel, fault)))

IntersectTypeB ==
  /\ At("intersect_geometries", "type_b")
  /\ \E fault \in BOOLEAN,
        sel \in Sels(rels, StmtOf("select_distinct_geometry_type.sql",
                                  <<call.args.relation_b>>)) :
       Do(I_TypeB(call, map_geometry_type(sql_directory, rels, call.args.relation_b,
                                             FALSE, sel, fault)))

IntersectCreate ==
  /\ At("intersect_geometries", "create")
  /\ \E fault \in BOOLEAN,
        sel \in Sels(rels, StmtOf("create_intersection_geometries.sql",
                                  IntersectParams(call))) :
       Do(I_Create(call, xq_file(sql_directory, rels,
                                 "create_intersection_geometries.sql",
                                 IntersectParams(call), sel, fault)))

IntersectReplace ==
  /\ At("intersect_geometries", "replace")
  /\ \E fault \in BOOLEAN : Do(I_Replace(call, execute_query(sql_directory, rels, m_string, ReplaceQuery(call),
                                      <<>>, <<>>, fault)))

IntersectIndex ==
  /\ At("intersect_geometries", "index")
  /\ \E fault \in BOOLEAN : Do(I_Index(call, create_spatial_index(sql_directory, rels,
                            IndexTarget(call.args.relation_b, call.args.out_name), fault)))

StartDissolve ==
  /\ CanStart
  /\ \E v \in BOOLEAN, bi \in BOOLEAN :
       Start(Begin("dissolve_geometries",
                   [relation_a |-> "a", relation_b |-> "b", out_name |-> "c",
                    as_view |-> v, build_index |-> bi],
                   "srid_a", rels))

DissolveSridA ==
  /\ At("dissolve_geometries", "srid_a")
  /\ \E fault \in BOOLEAN,
        sel \in Sels(rels, StmtOf("select_srid.sql", <<call.args.relation_a>>)) :
       Do(D_SridA(call, get_srid(sql_directory, rels, call.args.relation_a, sel, fault)))

DissolveSridB ==
  /\ At("dissolve_geometries", "srid_b")
  /\ \E fault \in BOOLEAN,
        sel \in Sels(rels, StmtOf("select_srid.sql", <<call.args.relation_b>>)) :
       Do(D_SridB(call, get_srid(sql_directory, rels, call.args.relation_b, sel, fault)))

DissolveSrid ==
  /\ At("dissolve_geometries", "srid")
  /\ \E fault \in BOOLEAN,
        sel \in Sels(rels, StmtOf("select_srid.sql", <<call.args.relation_a>>)) :
       Do(D_Srid(call, get_srid(sql_directory, rels, call.args.relation_a, sel, fault)))

DissolveCreate ==
  /\ At("dissolve_geometries", "create")
  /\ \E fault \in BOOLEAN : Do(D_Create(call, xq_file(sql_directory, rels, "create_dissolve_geometries.sql",
                              DissolveParams(call), <<>>, fault)))

DissolveIndex ==
  /\ At("dissolve_geometries", "index")
  /\ \E fault \in BOOLEAN : Do(D_Index(call, create_spatial_index(sql_directory, rels, call.args.out_name, fault)))

StartDrop ==
  /\ CanStart
  /\ \E k \in RelationTypes, names \in SeqsUpTo(DropNames, MaxNames) :
       Start(Begin("drop_relations", [relation_type |-> k, relations |-> names],
                   "check", rels))

DropCheck ==
  /\ At("drop_relations", "check")
  /\ call' = R_Check(call)
  /\ UNCHANGED <<rels, sql_directory, ncalls, last, other>>

DropLoop ==
  /\ At("drop_relations", "loop")
  /\ \E fault \in BOOLEAN : Do(R_Loop(call, xq_file(sql_directory, rels, "drop_relation.sql",
                            DropParams(call), <<>>, fault)))

StartMap ==
  /\ CanStart
  /\ \E r \in BaseNames, am \in BOOLEAN :
       Start(Begin("map_geometry_type", [relation |-> r, allow_multi |-> am],
                   "query", rels))

MapQuery ==
  /\ At("map_geometry_type", "query")
  /\ \E fault \in BOOLEAN,
        sel \in Sels(rels, StmtOf("select_distinct_geometry_type.sql",
                                  <<call.args.relation>>)) :
       Do(M_Query(call, map_geometry_type(sql_directory, rels, call.args.relation,
                                        call.args.allow_multi, sel, fault)))

StartIndex ==
  /\ CanStart
  /\ \E r \in BaseNames :
       Start(Begin("create_spatial_index", [relation |-> r], "index", rels))

IndexBuild ==
  /\ At("create_spatial_index", "index")
  /\ \E fault \in BOOLEAN : Do(X_Index(call, create_spatial_index(sql_directory, rels, call.args.relation, fault)))

StartQuery ==
  /\ CanStart
  /\ \E m \in Modes, q \in Queries :
       Start(Begin("execute_query",
                   [mode |-> m, query |-> q.query, parameters |-> q.parameters],
                   "run", rels))

QueryRun ==
  /\ At("execute_query", "run")
  /\ \E fault \in BOOLEAN, sel \in Sels(rels, Q_Stmt(call)) :
       Do(Q_Run(call, execute_query(sql_directory, rels, call.args.mode, call.args.query,
                                call.args.parameters, sel, fault)))

StartMulti ==
  /\ CanStart
  /\ \E r \in BaseNames :
       Start(Begin("singlepart_to_multipart", [relation |-> r], "srid", rels))

MultiSrid ==
  /\ At("singlepart_to_multipart", "srid")
  /\ \E fault \in BOOLEAN,
        sel \in Sels(rels, StmtOf("select_srid.sql", <<call.args.relation>>)) :
       Do(S_Srid(call, get_srid(sql_directory, rels, call.args.relation, sel, fault)))

MultiUpdate ==
  /\ At("singlepart_to_multipart", "update")
  /\ \E fault \in BOOLEAN :
       Do(S_Update(call, xq_file(sql_directory, rels, "singlepart_to_multipart.sql",
                                 <<call.args.relation, call.srid>>, <<>>, fault)))

StartProject ==
  /\ CanStart
  /\ \E r \in BaseNames, srid \in TargetSrids :
       Start(Begin("project_geometry", [relation |-> r, srid |-> srid], "type", rels))

ProjectType ==
  /\ At("project_geometry", "type")
  /\ \E fault \in BOOLEAN,
        sel \in Sels(rels, StmtOf("select_distinct_geometry_type.sql",
                                  <<call.args.relation>>)) :
       Do(P_Type(call, map_geometry_type(sql_directory, rels, call.args.relation,
                                         TRUE, sel, fault)))

ProjectAlter ==
  /\ At("project_geometry", "alter")
  /\ \E fault \in BOOLEAN :
       Do(P_Alter(call, xq_file(sql_directory, rels, "alter_geometry_srid.sql",
                                ProjectParams(call), <<>>, fault)))

StartForce2D ==
  /\ CanStart
  /\ \E r \in BaseNames, srid \in TargetSrids :
       Start(Begin("project_3d_to_2d", [relation |-> r, srid |-> srid], "type", rels))

Force2DType ==
  /\ At("project_3d_to_2d", "type")
  /\ \E fault \in BOOLEAN,
        sel \in Sels(rels, StmtOf("select_distinct_geometry_type.sql",
                                  <<call.args.relation>>)) :
       Do(F_Type(call, map_geometry_type(sql_directory, rels, call.args.relation,
                                         TRUE, sel, fault)))

Force2DAlter ==
  /\ At("project_3d_to_2d", "alter")
  /\ \E fault \in BOOLEAN,
        sel \in Sels(rels, StmtOf("alter_geometry_force_2d.sql", ProjectParams(call))) :
       Do(F_Alter(call, xq_file(sql_directory, rels, "alter_geometry_force_2d.sql",
                                ProjectParams(call), sel, fault)))

\* convert_st_to_type is pure: the call is over in one step
Convert ==
  /\ CanStart
  /\ \E g \in GeometryStrings, am \in BOOLEAN :
       LET r == convert_st_to_type(g, am)
       IN  Start([Begin("convert_st_to_type", [geometry |-> g, allow_multi |-> am],
                        "done", rels) EXCEPT !.err = r.err, !.ret = r.val])

\* control is back with the caller
Return ==
  /\ call.pc = "done"
  /\ call # NoCall
  /\ call' = NoCall
  /\ last' = IF call.op = "singlepart_to_multipart" /\ call.err = ""
             THEN call.args.relation ELSE None
  /\ UNCHANGED <<rels, sql_directory, ncalls, other>>

Next ==
  \/ StartIntersect \/ IntersectSridA \/ IntersectSridB \/ IntersectTypeB
  \/ IntersectCreate \/ IntersectReplace \/ IntersectIndex
  \/ StartDissolve \/ DissolveSridA \/ DissolveSridB \/ DissolveSrid
  \/ DissolveCreate \/ DissolveIndex
  \/ StartDrop \/ DropCheck \/ DropLoop
  \/ StartMap \/ MapQuery
  \/ StartIndex \/ IndexBuild
  \/ StartQuery \/ QueryRun
  \/ StartMulti \/ MultiSrid \/ MultiUpdate
  \/ StartProject \/ ProjectType \/ ProjectAlter
  \/ StartForce2D \/ Force2DType \/ Force2DAlter
  \/ Convert
  \/ Return

Spec == Init /\ [][Next]_vars

\* ------------------------------------------- the function-based revisions
\* legacy.py and utils.py hold the same operations as functions of a cursor.
\* Their statements are written inline; each has the text of the template of
\* the same name and is denoted StmtOf(name, parameters).

CursorRan(eng, stmt, fault, r) ==
  IF fault \/ ~r.ok
    THEN XqFail(eng, "EngineRaised", <<EvExecute(stmt, FALSE, fault)>>)
    ELSE [err |-> "", eng |-> r.eng, rows |-> r.rows,
          ev |-> <<EvExecute(stmt, TRUE, FALSE)>>]

\* cursor.execute(query): [err, ev, eng, rows]
cursor_execute(eng, stmt, sel, fault) == CursorRan(eng, stmt, fault, Engine(eng, stmt, sel))

\* cursor.fetchall()[0]: the first row only
FirstRow(r) ==
  IF r.err # "" THEN [err |-> r.err, ev |-> r.ev, eng |-> r.eng, val |-> <<>>]
  ELSE IF r.rows = <<>>
    THEN [err |-> "IndexError", ev |-> r.ev \o <<EvFetch(r.rows)>>,
          eng |-> r.eng, val |-> <<>>]
  ELSE [err |-> "", ev |-> r.ev \o <<EvFetch(r.rows)>>, eng |-> r.eng, val |-> r.rows[1]]

\* cursor.fetchall()[0][0]
FirstValue(r) ==
  IF r.err # "" THEN [err |-> r.err, ev |-> r.ev, eng |-> r.eng, val |-> 0]
  ELSE IF r.rows = <<>>
    THEN [err |-> "IndexError", ev |-> r.ev \o <<EvFetch(r.rows)>>,
          eng |-> r.eng, val |-> 0]
  ELSE [err |-> "", ev |-> r.ev \o <<EvFetch(r.rows)>>, eng |-> r.eng,
        val |-> r.rows[1][1]]

\* legacy get_geometry_type: [err, ev, eng, val]
legacy_get_geometry_type(eng, relation, sel, fault) ==
  FirstRow(cursor_execute(eng, StmtOf("select_distinct_geometry_type.sql", <<relation>>),
                          sel, fault))

\* legacy get_srid: [err, ev, eng, val]
legacy_get_srid(eng, relation, sel, fault) ==
  FirstValue(cursor_execute(eng, StmtOf("select_srid.sql", <<relation>>), sel, fault))

\* legacy has_single_geometry_type: if len(geometry_type) > 1: raise ValueError
legacy_has_single_geometry_type(geometry_type) == ~(Len(geometry_type) > 1)

\* has_single_geometry_type(geometry_types);
\* convert_st_to_type(geometry_types[0], allow_multi): [err, ev, eng, val]
LegacyType(t, allow_multi) ==
  IF t.err # "" THEN t
  ELSE IF ~legacy_has_single_geometry_type(t.val)
    THEN [t EXCEPT !.err = "ValueError: more than one geometry type", !.val = <<>>]
  ELSE convert_st_to_type(t.val[1], allow_multi) @@ [ev |-> t.ev, eng |-> t.eng]

\* legacy create_spatial_index: [err, ev, eng, rows]
legacy_create_spatial_index(eng, relation, fault) ==
  cursor_execute(eng, StmtOf("create_spatial_index.sql", <<relation>>), <<>>, fault)

\* ---- legacy intersect_geometries
LegacyIntersectParams(c) ==
  <<IF c.args.as_view THEN k_VIEW ELSE k_TABLE,
    IF c.args.out_name = None THEN c.args.relation_b \o "_tmp" ELSE c.args.out_name,
    JoinFields(Qualify("a", c.args.fields_a) \o Qualify("b", c.args.fields_b)),
    c.args.relation_a, c.args.relation_b,
    IF c.gtype \in DOMAIN DIMENSION THEN DIMENSION[c.gtype] ELSE 0>>

\* if build_index and relation_type == "TABLE"
LegacyAfterIntersect_views(c) == IF c.args.build_index THEN "index" ELSE "done"

LegacyAfterIntersect(c) ==
  IF c.args.build_index /\ ~c.args.as_view THEN "index" ELSE "done"

LegacyReplaceQuery(c) ==
  Text("drop_rename",
       <<c.args.relation_b,
         IF c.args.out_name = None THEN c.args.relation_b \o "_tmp" ELSE c.args.out_name>>)

\* the statement the function hands to the cursor next
LegacyIntersectStmt(c) ==
  CASE c.pc = "type_b" ->
         StmtOf("select_distinct_geometry_type.sql", <<c.args.relation_b>>)
    [] c.pc = "create" ->
         StmtOf("create_intersection_geometries.sql", LegacyIntersectParams(c))
    [] c.pc = "replace" -> LegacyReplaceQuery(c)
    [] OTHER -> StmtOf("create_spatial_index.sql",
                       <<IF c.args.out_name = None THEN c.args.relation_b
                         ELSE c.args.out_name>>)

\* geometry_types_b = get_geometry_type(...); has_single_geometry_type(...);
\* geometry_type_b = convert_st_to_type(geometry_types_b[0], False); DIMENSION[...]
LI_TypeB(c, m) ==
  IF m.err # "" THEN [c |-> Raise(c, m.ev, m.err), eng |-> m.eng]
  ELSE IF m.val \notin DOMAIN DIMENSION
    THEN [c |-> [Raise(c, m.ev, "KeyError") EXCEPT !.gtype = m.val], eng |-> m.eng]
  ELSE [c |-> [Goto(c, m.ev, "create") EXCEPT !.gtype = m.val], eng |-> m.eng]

\* cursor.execute(query), then whatever follows
LI_Then(c, r, pc) ==
  IF r.err # "" THEN [c |-> Raise(c, r.ev, r.err), eng |-> r.eng]
  ELSE [c |-> Goto(c, r.ev, pc), eng |-> r.eng]

LegacyIntersect(c, eng, sel, fault) ==
  CASE c.pc = "type_b" ->
         LI_TypeB(c, LegacyType(legacy_get_geometry_type(eng, c.args.relation_b,
                                                         sel, fault), FALSE))
    [] c.pc = "create" ->
         LI_Then(c, cursor_execute(eng, LegacyIntersectStmt(c), sel, fault),
                 IF c.args.out_name = None THEN "replace" ELSE LegacyAfterIntersect(c))
    [] c.pc = "replace" ->
         LI_Then(c, cursor_execute(eng, LegacyIntersectStmt(c), sel, fault),
                 LegacyAfterIntersect(c))
    [] OTHER ->
         LI_Then(c, legacy_create_spatial_index(eng,
                      IF c.args.out_name = None THEN c.args.relation_b
                      ELSE c.args.out_name, fault), "done")

\* ---- legacy aggregate_relations
\* if build_index: create_spatial_index(cursor, out_name)
LegacyAfterAggregate(c) == IF c.args.build_index THEN "index" ELSE "done"

LegacyAggregateStmt(c) ==
  CASE c.pc = "srid_a" -> StmtOf("select_srid.sql", <<c.args.relation_a>>)
    [] c.pc = "srid_b" -> StmtOf("select_srid.sql", <<c.args.relation_b>>)
    [] c.pc = "create" ->
         StmtOf("create_dissolve_geometries.sql",
                <<IF c.args.as_view THEN k_VIEW ELSE k_TABLE, c.args.out_name,
                  c.srid_a, c.args.relation_a, c.args.relation_b>>)
    [] OTHER -> StmtOf("create_spatial_index.sql", <<c.args.out_name>>)

\* srid_a = get_srid(cursor, relation_a)
LA_SridA(c, g) ==
  IF g.err # "" THEN [c |-> Raise(c, g.ev, g.err), eng |-> g.eng]
  ELSE [c |-> [Goto(c, g.ev, "srid_b") EXCEPT !.srid_a = g.val], eng |-> g.eng]

\* srid_b = get_srid(cursor, relation_b); if srid_a != srid_b: raise ValueError
LA_SridB(c, g) ==
  IF g.err # "" THEN [c |-> Raise(c, g.ev, g.err), eng |-> g.eng]
  ELSE IF c.srid_a # g.val
    THEN [c |-> [Raise(c, g.ev, "ValueError: not the same SRID")
                   EXCEPT !.srid_b = g.val], eng |-> g.eng]
  ELSE [c |-> [Goto(c, g.ev, "create") EXCEPT !.srid_b = g.val], eng |-> g.eng]

LegacyAggregate(c, eng, sel, fault) ==
  CASE c.pc = "srid_a" -> LA_SridA(c, legacy_get_srid(eng, c.args.relation_a, sel, fault))
    [] c.pc = "srid_b" -> LA_SridB(c, legacy_get_srid(eng, c.args.relation_b, sel, fault))
    [] c.pc = "create" ->
         LI_Then(c, cursor_execute(eng, LegacyAggregateStmt(c), sel, fault),
                 LegacyAfterAggregate(c))
    [] OTHER ->
         LI_Then(c, legacy_create_spatial_index(eng, c.args.out_name, fault), "done")

\* ---- legacy project_geometry and transform_3d_to_2d
LegacyAlterStmt(c) ==
  CASE c.pc = "type" ->
         StmtOf("select_distinct_geometry_type.sql", <<c.args.relation>>)
    [] c.pc = "srid" -> StmtOf("select_srid.sql", <<c.args.relation>>)
    [] c.op = "legacy.project_geometry" ->
         StmtOf("alter_geometry_srid.sql", <<c.args.relation, c.gtype, c.args.srid>>)
    [] OTHER ->
         StmtOf("alter_geometry_force_2d.sql", <<c.args.relation, c.gtype, c.srid>>)

\* geometry_type = convert_st_to_type(geometry_types[0])
LP_Type(c, m, pc) ==
  IF m.err # "" THEN [c |-> Raise(c, m.ev, m.err), eng |-> m.eng]
  ELSE [c |-> [Goto(c, m.ev, pc) EXCEPT !.gtype = m.val], eng |-> m.eng]

\* srid = get_srid(cursor, relation)
LT_Srid(c, g) ==
  IF g.err # "" THEN [c |-> Raise(c, g.ev, g.err), eng |-> g.eng]
  ELSE [c |-> [Goto(c, g.ev, "alter") EXCEPT !.srid = g.val], eng |-> g.eng]

LegacyAlter(c, eng, sel, fault) ==
  CASE c.pc = "type" ->
         LP_Type(c, LegacyType(legacy_get_geometry_type(eng, c.args.relation, sel, fault),
                               TRUE),
                 IF c.op = "legacy.project_geometry" THEN "alter" ELSE "srid")
    [] c.pc = "srid" -> LT_Srid(c, legacy_get_srid(eng, c.args.relation, sel, fault))
    [] OTHER -> LI_Then(c, cursor_execute(eng, LegacyAlterStmt(c), sel, fault), "done")

InitLegacy ==
  /\ \E l \in Loads :
       rels = [n \in AllNames |->
                 IF n = "a" THEN Place("a", l[1])
                 ELSE IF n = "b" THEN Place("b", l[2]) ELSE NoRel]
  /\ sql_directory = None
  /\ call = NoCall
  /\ ncalls = 0
  /\ last = None
  /\ other = NoCall

StartLegacyIntersect ==
  /\ CanStart
  /\ \E f \in FieldLists, v \in BOOLEAN, o \in OutNames, bi \in BOOLEAN :
       Start(Begin("legacy.intersect_geometries",
                   [relation_a |-> "a", relation_b |-> "b", fields_a |-> f[1],
                    fields_b |-> f[2], as_view |-> v, out_name |-> o, build_index |-> bi],
                   "type_b", rels))

LegacyIntersectStep ==
  /\ call.op = "legacy.intersect_geometries" /\ call.pc # "done"
  /\ \E fault \in BOOLEAN, sel \in Sels(rels, LegacyIntersectStmt(call)) :
       Do(LegacyIntersect(call, rels, sel, fault))

StartLegacyAggregate ==
  /\ CanStart
  /\ \E v \in BOOLEAN, bi \in BOOLEAN :
       Start(Begin("legacy.aggregate_relations",
                   [relation_a |-> "a", relation_b |-> "b", out_name |-> "c",
                    as_view |-> v, build_index |-> bi],
                   "srid_a", rels))

LegacyAggregateStep ==
  /\ call.op = "legacy.aggregate_relations" /\ call.pc # "done"
  /\ \E fault \in BOOLEAN, sel \in Sels(rels, LegacyAggregateStmt(call)) :
       Do(LegacyAggregate(call, rels, sel, fault))

StartLegacyProject ==
  /\ CanStart
  /\ \E r \in {"a", "b"}, srid \in TargetSrids :
       Start(Begin("legacy.project_geometry", [relation |-> r, srid |-> srid],
                   "type", rels))

StartLegacyTransform ==
  /\ CanStart
  /\ \E r \in {"a", "b"} :
       Start(Begin("legacy.transform_3d_to_2d", [relation |-> r], "type", rels))

LegacyAlterStep ==
  /\ call.op \in {"legacy.project_geometry", "legacy.transform_3d_to_2d"}
  /\ call.pc # "done"
  /\ \E fault \in BOOLEAN, sel \in Sels(rels, LegacyAlterStmt(call)) :
       Do(LegacyAlter(call, rels, sel, fault))

NextLegacy ==
  \/ StartLegacyIntersect \/ LegacyIntersectStep
  \/ StartLegacyAggregate \/ LegacyAggregateStep
  \/ StartLegacyProject \/ StartLegacyTransform \/ LegacyAlterStep
  \/ Return

SpecLegacy == InitLegacy /\ [][NextLegacy]_vars

\* ------------------------------------------------- two callers at a time
\* Two intersect_geometries calls run against the same engine; each engine
\* call is one step, and the steps of the two callers interleave freely.

\* the statement caller c hands to the engine next
NextStmt(c) ==
  CASE c.pc = "srid_a" -> StmtOf("select_srid.sql", <<c.args.relation_a>>)
    [] c.pc = "srid_b" -> StmtOf("select_srid.sql", <<c.args.relation_b>>)
    [] c.pc = "type_b" ->
         StmtOf("select_distinct_geometry_type.sql", <<c.args.relation_b>>)
    [] c.pc = "create" ->
         StmtOf("create_intersection_geometries.sql", IntersectParams(c))
    [] c.pc = "replace" -> ReplaceQuery(c)
    [] OTHER -> StmtOf("create_spatial_index.sql",
                       <<IndexTarget(c.args.relation_b, c.args.out_name)>>)

\* the next engine call of intersect_geometries, made by caller c
IntersectStep(c, sqldir, eng, sel, fault) ==
  CASE c.pc = "srid_a" ->
         I_SridA(c, get_srid(sqldir, eng, c.args.relation_a, sel, fault))
    [] c.pc = "srid_b" ->
         I_SridB(c, get_srid(sqldir, eng, c.args.relation_b, sel, fault))
    [] c.pc = "type_b" ->
         I_TypeB(c, map_geometry_type(sqldir, eng, c.args.relation_b, FALSE, sel, fault))
    [] c.pc = "create" ->
         I_Create(c, xq_file(sqldir, eng, "create_intersection_geometries.sql",
                             IntersectParams(c), sel, fault))
    [] c.pc = "replace" ->
         I_Replace(c, execute_query(sqldir, eng, m_string, ReplaceQuery(c),
                                    <<>>, <<>>, fault))
    [] OTHER ->
         I_Index(c, create_spatial_index(sqldir, eng,
                      IndexTarget(c.args.relation_b, c.args.out_name), fault))

InitConcurrent ==
  /\ \E l \in {<<P2154, P2154>>, <<P2154, Loaded({2154}, {ST_MultiPolygon})>>} :
       rels = [n \in AllNames |->
                 IF n = "a" THEN Place("a", l[1])
                 ELSE IF n = "b" THEN Place("b", l[2]) ELSE NoRel]
  /\ sql_directory = "sql"
  /\ call = NoCall
  /\ ncalls = 0
  /\ last = None
  /\ other = NoCall

OtherStart ==
  /\ other = NoCall
  /\ \E o \in OutNames, bi \in BOOLEAN :
       other' = Begin("intersect_geometries",
                      [relation_a |-> "a", relation_b |-> "b", fields_a |-> <<>>,
                       fields_b |-> <<"id">>, as_view |-> FALSE, out_name |-> o,
                       build_index |-> bi],
                      "srid_a", rels)
  /\ UNCHANGED <<rels, sql_directory, call, ncalls, last>>

OtherStep ==
  /\ other.op = "intersect_geometries" /\ other.pc # "done"
  /\ \E fault \in BOOLEAN, sel \in Sels(rels, NextStmt(other)) :
       /\ other' = IntersectStep(other, sql_directory, rels, sel, fault).c
       /\ rels' = IntersectStep(other, sql_directory, rels, sel, fault).eng
  /\ UNCHANGED <<sql_directory, call, ncalls, last>>

NextConcurrent ==
  \/ StartIntersect \/ IntersectSridA \/ IntersectSridB \/ IntersectTypeB
  \/ IntersectCreate \/ IntersectReplace \/ IntersectIndex
  \/ OtherStart \/ OtherStep

SpecConcurrent == InitConcurrent /\ [][NextConcurrent]_vars

\* ------------------------------------------------------------- properties
IsExecute(ev) == ev.e = "execute"

\* the statements the call has handed to the engine, in order
Execs(c) == SelectSeq(c.log, IsExecute)

Sqls(c) == [j \in DOMAIN Execs(c) |-> Execs(c)[j].stmt.sql]

Issued(c, sql) == {j \in DOMAIN Execs(c) : Execs(c)[j].stmt.sql = sql}

Succeeded(c, sql) == \E j \in Issued(c, sql) : Execs(c)[j].ok

NoFault(c) == \A j \in DOMAIN Execs(c) : ~Execs(c)[j].fault

Binary(c) == c.op \in {"intersect_geometries", "dissolve_geometries"}

SridMismatch == "ValueError: not the same SRID"

MixedTypes == "ValueError: more than one geometry type"

\* C1: in intersect_geometries and dissolve_geometries, once the two SRIDs are
\* known and differ, the call is over with the SRID-mismatch error, the only
\* statements issued are the SRID query of relation_a and that of relation_b,
\* and the relations are as they were, whatever the other arguments.
C1_SridMismatchStopsBeforeAnyStatement ==
  (Binary(call) /\ call.srid_a # 0 /\ call.srid_b # 0 /\ call.srid_a # call.srid_b)
  => /\ call.pc = "done"
     /\ call.err = SridMismatch
     /\ Len(Execs(call)) = 2
     /\ Execs(call)[1].stmt = StmtOf("select_srid.sql", <<call.args.relation_a>>)
     /\ Execs(call)[2].stmt = StmtOf("select_srid.sql", <<call.args.relation_b>>)
     /\ rels = call.pre

C1_Witness ==
  /\ call.op = "intersect_geometries"
  /\ call.pc = "done"
  /\ call.err = SridMismatch
  /\ call.srid_a = 4326 /\ call.srid_b = 2154
  /\ call.args.build_index /\ ~call.args.as_view /\ call.args.out_name = None

InPlaceTable(c) ==
  c.op = "intersect_geometries" /\ c.args.out_name = None /\ ~c.args.as_view

\* C2: an in-place table intersect (no out_name, as_view false) that returns
\* normally created its result as {relation_b}_tmp, then issued the drop+rename
\* as the very next statement, one engine call, before any index build; after it
\* relation_b is the intersection table and {relation_b}_tmp does not exist.
C2_InPlaceReplacesThroughTmp ==
  (InPlaceTable(call) /\ call.pc = "done" /\ call.err = "")
  => \E j \in DOMAIN Execs(call) :
       /\ Execs(call)[j].stmt.sql = "create_intersection_geometries.sql"
       /\ Execs(call)[j].stmt.p[2] = call.args.relation_b \o "_tmp"
       /\ Execs(call)[j].ok
       /\ j + 1 \in DOMAIN Execs(call)
       /\ Execs(call)[j + 1].stmt =
            Text("drop_rename", <<call.args.relation_b, call.args.relation_b \o "_tmp">>)
       /\ Execs(call)[j + 1].ok
       /\ Issued(call, "drop_rename") = {j + 1}
       /\ \A k \in Issued(call, "create_spatial_index.sql") : k > j + 1
       /\ Exists(rels, call.args.relation_b)
       /\ rels[call.args.relation_b].origin = "intersection"
       /\ rels[call.args.relation_b].kind = k_TABLE
       /\ ~Exists(rels, call.args.relation_b \o "_tmp")

C2_Witness ==
  /\ InPlaceTable(call) /\ call.pc = "done" /\ call.err = ""
  /\ call.args.build_index
  /\ call.pre["b"].origin = "load"
  /\ rels["b"].srids = {2154}

CreatedOk(c) == Succeeded(c, "create_intersection_geometries.sql")

\* C3: an in-place view intersect (no out_name, as_view true) whose view was
\* created and that met no engine outage leaves relation_b a readable relation
\* holding the intersection result.
C3_InPlaceViewKeepsHandle ==
  (/\ call.op = "intersect_geometries" /\ call.pc = "done"
   /\ call.args.out_name = None /\ call.args.as_view
   /\ CreatedOk(call) /\ NoFault(call))
  => /\ call.err = ""
     /\ Readable(rels, call.args.relation_b)
     /\ rels[call.args.relation_b].origin = "intersection"

FinalName(c) ==
  IF c.op = "intersect_geometries" /\ c.args.out_name = None
    THEN c.args.relation_b ELSE c.args.out_name

Materialized(c) ==
  /\ \/ Succeeded(c, "create_intersection_geometries.sql")
     \/ Succeeded(c, "create_dissolve_geometries.sql")
  /\ (c.op = "intersect_geometries" /\ c.args.out_name = None)
       => Succeeded(c, "drop_rename")

\* C4: in intersect_geometries and dissolve_geometries an index build is issued
\* only for a table with build_index set, at most once, as the last statement,
\* on the final name; and it is issued whenever such a table was materialized.
C4_IndexOnlyForTablesLast ==
  Binary(call)
  => /\ \A j \in Issued(call, "create_spatial_index.sql") :
          /\ ~call.args.as_view /\ call.args.build_index
          /\ j = Len(Execs(call))
          /\ call.pc = "done"
          /\ Execs(call)[j].stmt.p = <<FinalName(call)>>
          /\ Materialized(call)
     /\ (call.pc = "done" /\ Materialized(call)
           /\ ~call.args.as_view /\ call.args.build_index)
          => Cardinality(Issued(call, "create_spatial_index.sql")) = 1

C4_Witness ==
  /\ call.op = "intersect_geometries" /\ call.pc = "done" /\ call.err = ""
  /\ call.args.out_name = None
  /\ Succeeded(call, "create_spatial_index.sql")
  /\ "b_geom_idx" \in rels["b"].idx

TypesAnswered(c) ==
  \E j \in Issued(c, "select_distinct_geometry_type.sql") : Execs(c)[j].ok

\* C5: in intersect_geometries with equal SRIDs, once the type query of a
\* relation_b holding two or more distinct geometry types (Polygon with
\* MultiPolygon included) is answered, the call is over with the mixed-type
\* error, nothing but the two SRID queries and the type query was issued, and
\* the relations are as they were.
C5_MixedTypesStopBeforeCreate ==
  (/\ call.op = "intersect_geometries" /\ TypesAnswered(call)
   /\ Cardinality(call.pre[call.args.relation_b].types) >= 2)
  => /\ call.pc = "done"
     /\ call.err = MixedTypes
     /\ Sqls(call) = <<"select_srid.sql", "select_srid.sql",
                       "select_distinct_geometry_type.sql">>
     /\ rels = call.pre

C5_Witness ==
  /\ call.op = "intersect_geometries" /\ call.pc = "done" /\ call.err = MixedTypes
  /\ call.pre["b"].types = {ST_Polygon, ST_MultiPolygon}
  /\ call.srid_a = call.srid_b

\* C6: map_geometry_type, once its type query is answered, raises the mixed-type
\* error exactly when the relation does not hold exactly one distinct geometry
\* type (none, for an empty relation, or two and more); with exactly one type
\* it ends as convert_st_to_type ends on that type.
C6_SingleTypeCheckIsExactlyOne ==
  (call.op = "map_geometry_type" /\ call.pc = "done" /\ TypesAnswered(call))
  => LET types == call.pre[call.args.relation].types
     IN  /\ (call.err = MixedTypes) <=> (Cardinality(types) # 1)
         /\ \A t \in types :
              Cardinality(types) = 1
              => /\ call.err = convert_st_to_type(t, call.args.allow_multi).err
                 /\ call.ret = convert_st_to_type(t, call.args.allow_multi).val

C6_Witness ==
  /\ call.op = "map_geometry_type" /\ call.pc = "done" /\ TypesAnswered(call)
  /\ call.pre[call.args.relation].types = {}
  /\ call.err = MixedTypes

StartsWith(s, prefix) ==
  Len(s) >= Len(prefix) /\ \A j \in DOMAIN prefix : s[j] = prefix[j]

InvalidGeometryType == "ValueError: not compatible with PostGIS"

\* C7: convert_st_to_type(g, allow_multi) raises the invalid-geometry-type error
\* when g does not begin with "ST_"; otherwise it returns the rest of g, less a
\* leading "Multi" exactly when allow_multi is false and the rest begins with it.
C7_ConvertStripsPrefixAndMulti ==
  (call.op = "convert_st_to_type" /\ call.pc = "done")
  => LET g == call.args.geometry
     IN  IF ~StartsWith(g, <<"S", "T", "_">>)
           THEN call.err = InvalidGeometryType
         ELSE IF ~call.args.allow_multi
                 /\ StartsWith(g, <<"S", "T", "_", "M", "u", "l", "t", "i">>)
           THEN call.err = "" /\ g = <<"S", "T", "_", "M", "u", "l", "t", "i">> \o call.ret
         ELSE call.err = "" /\ g = <<"S", "T", "_">> \o call.ret

C7_Witness ==
  /\ call.op = "convert_st_to_type" /\ call.pc = "done"
  /\ call.args.geometry = ST_MultiPolygon /\ ~call.args.allow_multi
  /\ call.ret = <<"P", "o", "l", "y", "g", "o", "n">>

SameIgnoringCase(s, t) ==
  /\ Len(s) = Len(t)
  /\ \A j \in DOMAIN s :
       \/ s[j] = t[j]
       \/ s[j] \in DOMAIN UpperOf /\ UpperOf[s[j]] = t[j]
       \/ t[j] \in DOMAIN UpperOf /\ UpperOf[t[j]] = s[j]

IsKind(relation_type) ==
  \E k \in {<<"T", "A", "B", "L", "E">>, <<"V", "I", "E", "W">>} :
     SameIgnoringCase(relation_type, k)

\* C8: drop_relations with a kind that is neither TABLE nor VIEW (in any
\* letter case) is over after its check with the invalid-relation-kind error:
\* it issued no statement and every relation is as it was, whatever the names.
C8_InvalidKindDropsNothing ==
  (call.op = "drop_relations" /\ call.pc # "check" /\ ~IsKind(call.args.relation_type))
  => /\ call.pc = "done"
     /\ call.err = "ValueError: not a valid relation type"
     /\ call.log = <<>>
     /\ rels = call.pre

C8_Witness ==
  /\ call.op = "drop_relations" /\ call.pc = "done"
  /\ call.args.relation_type = <<"I", "N", "D", "E", "X">>
  /\ call.args.relations = <<"b", "c">>
  /\ call.err = "ValueError: not a valid relation type"
  /\ Exists(rels, "b") /\ Exists(rels, "c")

CouldNotDrop == "ValueError: could not be dropped"

\* C9: drop_relations issues its drops in list order, one per name, and no
\* statement follows a failed one; when a drop fails the call is over with the
\* error naming that name, the names before it are gone from the engine, and
\* no statement was issued for the names after it.
C9_DropStopsAtFirstFailure ==
  call.op = "drop_relations"
  => /\ \A j \in DOMAIN Execs(call) :
          /\ j <= Len(call.args.relations)
          /\ Execs(call)[j].stmt =
               StmtOf("drop_relation.sql",
                      <<call.args.relation_type, call.args.relations[j], "CASCADE">>)
          /\ j < Len(Execs(call)) => Execs(call)[j].ok
     /\ (\E j \in DOMAIN Execs(call) : ~Execs(call)[j].ok)
          => /\ call.pc = "done"
             /\ call.err = CouldNotDrop
             /\ call.ret = <<call.args.relations[Len(Execs(call))]>>
             /\ \A k \in 1..(Len(Execs(call)) - 1) :
                  ~Exists(rels, call.args.relations[k])
     /\ call.err = CouldNotDrop
          => /\ call.pc = "done"
             /\ call.i \in DOMAIN call.args.relations
             /\ call.ret = <<call.args.relations[call.i]>>
             /\ Len(Execs(call)) <= call.i
             /\ \A k \in 1..(call.i - 1) :
                  Execs(call)[k].ok /\ ~Exists(rels, call.args.relations[k])
     /\ (call.pc = "done" /\ call.err = "" /\ IsKind(call.args.relation_type))
          => Len(Execs(call)) = Len(call.args.relations)

C9_Witness ==
  /\ call.op = "drop_relations" /\ call.pc = "done" /\ call.err = CouldNotDrop
  /\ call.args.relations = <<"c", "b">>
  /\ call.ret = <<"b">>
  /\ Len(Execs(call)) = 2
  /\ ~Execs(call)[2].fault
  /\ Exists(call.pre, "c") /\ ~Exists(rels, "c") /\ Exists(rels, "b")

IsMode(mode) ==
  \E m \in {<<"f", "i", "l", "e">>, <<"s", "t", "r", "i", "n", "g">>} :
     SameIgnoringCase(mode, m)

\* C10: execute_query with a mode that is neither "file" nor "string" (in any
\* letter case) ends with the unsupported-mode error and an empty event list:
\* no template read, no connection, no statement; the relations are untouched.
C10_UnsupportedModeDoesNothing ==
  (call.op = "execute_query" /\ call.pc = "done" /\ ~IsMode(call.args.mode))
  => /\ call.err = "ValueError: not a supported mode"
     /\ call.log = <<>>
     /\ rels = call.pre

C10_Witness ==
  /\ call.op = "execute_query" /\ call.pc = "done"
  /\ call.args.mode = <<"d", "i", "r", "e", "c", "t">>
  /\ call.args.query = Path("select_srid.sql")
  /\ call.err = "ValueError: not a supported mode"
  /\ sql_directory = "sql"

NoDirectory == "ValueError: no SQL directory"

\* C11: execute_query in file mode on a processor without sql_directory ends
\* with the no-SQL-directory error, having read no template and issued no
\* statement; in string mode on such a processor the statement always reaches
\* the engine, and the call fails only if the engine raises.
C11_FileModeNeedsSqlDirectory ==
  (call.op = "execute_query" /\ call.pc = "done" /\ sql_directory = None)
  => /\ SameIgnoringCase(call.args.mode, <<"f", "i", "l", "e">>)
          => /\ call.err = NoDirectory
             /\ call.log = <<>>
             /\ rels = call.pre
     /\ SameIgnoringCase(call.args.mode, <<"s", "t", "r", "i", "n", "g">>)
          => /\ Len(Execs(call)) = 1
             /\ call.err # NoDirectory
             /\ call.err # "" => ~Execs(call)[1].ok

C11_Witness ==
  /\ call.op = "execute_query" /\ call.pc = "done" /\ sql_directory = None
  /\ call.args.mode = <<"f", "i", "l", "e">>
  /\ call.args.query = Path("select_srid.sql")
  /\ call.err = NoDirectory

C11_WitnessString ==
  /\ call.op = "execute_query" /\ call.pc = "done" /\ sql_directory = None
  /\ call.args.mode = <<"s", "t", "r", "i", "n", "g">>
  /\ call.err = "" /\ call.ret = <<<<2154>>>>

\* the connections acquired and not yet released after the events of log
Held(log) ==
  Cardinality({j \in DOMAIN log : log[j].e = "connect"})
    - Cardinality({j \in DOMAIN log : log[j].e = "release"})

\* C12: whenever control is with the caller or between two engine calls of a
\* method no connection is held: every connection acquired by execute_query
\* carried exactly one statement and was released right after it, whether the
\* statement succeeded or the engine raised.
C12_ConnectionsAreReleased ==
  /\ Held(call.log) = 0
  /\ \A j \in DOMAIN call.log :
       /\ call.log[j].e = "connect"
            => /\ j + 2 \in DOMAIN call.log
               /\ call.log[j + 1].e = "execute"
               /\ call.log[j + 2].e = "release"
       /\ call.log[j].e = "execute"
            => j - 1 \in DOMAIN call.log /\ call.log[j - 1].e = "connect"

C12_Witness ==
  /\ call.op = "intersect_geometries" /\ call.pc = "done" /\ call.err = "EngineRaised"
  /\ Len(Execs(call)) = 4
  /\ ~Execs(call)[4].ok
  /\ call.log[Len(call.log)].e = "release"

\* what conn.execute raises when the engine rejects a statement
RawEngineError == "EngineRaised"

EngineError == "EngineError"

LastFailed(c) == Execs(c) # <<>> /\ ~Execs(c)[Len(Execs(c))].ok

\* C13: when the engine raises on a statement, execute_query and every
\* operation built on it other than drop_relations end with EngineError, a
\* wrapper of the engine's error, never with the engine's own error.
C13_EngineErrorsAreWrapped ==
  (/\ call.pc = "done" /\ LastFailed(call)
   /\ call.op \in {"execute_query", "create_spatial_index", "map_geometry_type",
                   "intersect_geometries", "dissolve_geometries"})
  => call.err = EngineError /\ call.err # RawEngineError

C15_ProjectStopsOnMixedTypes ==
  (/\ call.op \in {"project_geometry", "project_3d_to_2d"} /\ TypesAnswered(call)
   /\ Cardinality(call.pre[call.args.relation].types) >= 2)
  => /\ call.pc = "done"
     /\ call.err = MixedTypes
     /\ Sqls(call) = <<"select_distinct_geometry_type.sql">>
     /\ rels = call.pre

C15_Witness ==
  /\ call.op = "project_3d_to_2d" /\ call.pc = "done" /\ call.err = MixedTypes
  /\ call.args.relation = "b" /\ call.args.srid = 4326
  /\ rels["b"].types = {ST_Polygon, ST_MultiPolygon}
  /\ rels["b"].srids = {2154}

C15_WitnessReproject ==
  /\ call.op = "project_geometry" /\ call.pc = "done" /\ call.err = MixedTypes
  /\ call.args.relation = "b" /\ call.args.srid = 4326
  /\ rels["b"].types = {ST_Polygon, ST_MultiPolygon}
  /\ rels["b"].srids = {2154}

IsFetch(ev) == ev.e = "fetch"

\* the row sets the call has read from the engine, in order
Fetches(c) == SelectSeq(c.log, IsFetch)

\* C16: in intersect_geometries and dissolve_geometries each SRID is the first
\* value of the first row the engine returned for the relation, however many
\* distinct SRIDs it returned, and no error is raised for there being several;
\* when the two first values are equal the call does not end with the
\* SRID-mismatch error and goes on to its next statement.
C16_SridIsFirstReturnedValue ==
  Binary(call)
  => /\ (Len(Fetches(call)) >= 1 /\ Fetches(call)[1].rows # <<>>)
          => call.srid_a = Fetches(call)[1].rows[1][1]
     /\ (Len(Fetches(call)) >= 2 /\ Fetches(call)[2].rows # <<>>)
          => /\ call.srid_b = Fetches(call)[2].rows[1][1]
             /\ (Fetches(call)[1].rows[1][1] = Fetches(call)[2].rows[1][1])
                  => /\ call.err # SridMismatch
                     /\ Len(Execs(call)) = 2 => call.pc \in {"type_b", "srid"}

C16_Witness ==
  /\ call.op = "intersect_geometries" /\ call.pc = "done" /\ call.err = ""
  /\ call.pre["a"].srids = {2154, 4326}
  /\ Len(Fetches(call)[1].rows) = 2
  /\ call.srid_a = 2154 /\ call.srid_b = 2154
  /\ Succeeded(call, "create_intersection_geometries.sql")

\* a dissolve_geometries call that returned normally and left a readable result
DissolvedOk ==
  /\ call.op = "dissolve_geometries" /\ call.pc = "done" /\ call.err = ""
  /\ Readable(rels, call.args.out_name)

\* the singlepart polygons of the rows that the dissolve read
InputParts ==
  UNION {Parts(g) : g \in call.pre[call.args.relation_a].geoms
                          \cup call.pre[call.args.relation_b].geoms}

OutputRows == rels[call.args.out_name].geoms

SinglepartPolygonsAtSrid ==
  /\ OutputRows # {}
  /\ rels[call.args.out_name].types = {ST_Polygon}
  /\ rels[call.args.out_name].srids = {call.srid_a}
  /\ \A r \in OutputRows : Parts(r) = {r}

\* C17 as claimed: the result of a dissolve holds only singlepart polygons at
\* the shared SRID, and two input polygons that touch or overlap, directly or
\* through a chain of touching or overlapping ones, lie in one output row.
C17_TouchingGeometriesEndInOneRow ==
  DissolvedOk
  => /\ SinglepartPolygonsAtSrid
     /\ \A p \in InputParts : \A q \in GrowCluster({p}, InputParts) :
          \E r \in OutputRows : (p \cup q) \subseteq r

\* C17 as amended: the result of a dissolve holds only singlepart polygons at
\* the shared SRID, which cover exactly what the inputs cover; two input
\* polygons that overlap or have a side in common lie in one output row, and
\* two different output rows neither overlap nor have a side in common: they
\* meet at isolated points at most, so polygons that touch only at a point are
\* not merged by that touch.
C17_DissolveMergesAcrossSharedSides ==
  DissolvedOk
  => /\ SinglepartPolygonsAtSrid
     /\ UNION OutputRows = UNION InputParts
     /\ \A p \in InputParts, q \in InputParts :
          (p \cap q # {} \/ \E s \in p, t \in q : SideBySide(s, t))
          => \E r \in OutputRows : (p \cup q) \subseteq r
     /\ \A r1 \in OutputRows, r2 \in OutputRows :
          r1 # r2 => \A s \in r1, t \in r2 : s # t /\ ~SideBySide(s, t)

C17_Witness ==
  /\ DissolvedOk
  /\ ~call.args.as_view
  /\ call.pre["a"].geoms = {{<<0, 0>>}, {<<3, 1>>}, {<<5, 0>>}}
  /\ call.pre["b"].geoms = {{<<0, 0>>, <<1, 0>>}, {<<2, 1>>}}
  /\ OutputRows = {{<<0, 0>>, <<1, 0>>}, {<<2, 1>>, <<3, 1>>}, {<<5, 0>>}}

\* the relation that holds the result of an intersect whose CREATE succeeded
IntersectResult(c) ==
  IF c.args.out_name = None /\ Succeeded(c, "drop_rename")
    THEN c.args.relation_b ELSE Relation(c.args.relation_b, c.args.out_name)

\* pairs of input polygons that meet without overlapping
PointOrLineTouches(c) ==
  {f \in Fragments(c.pre[c.args.relation_a].geoms, c.pre[c.args.relation_b].geoms) :
     f.dim < 2}

\* C18: every row of a readable intersect result has a geometry of dimension
\* DIMENSION[k], k being relation_b's single geometry type in singlepart form
\* (so the dimension of relation_b's rows); in a polygon result the rows are
\* exactly the overlaps of the input polygons, and what two inputs share along
\* a boundary or at a point is not in it.
C18_ResultHasDimensionOfRelationB ==
  (/\ call.op = "intersect_geometries" /\ CreatedOk(call)
   /\ Readable(rels, IntersectResult(call)))
  => LET result == rels[IntersectResult(call)]
         b == call.pre[call.args.relation_b]
     IN  /\ \A t \in result.types :
               /\ DimOfType(t) = DIMENSION[call.gtype]
               /\ \A u \in b.types : DimOfType(u) = DimOfType(t)
         /\ DIMENSION[call.gtype] = 2
              => result.geoms =
                   Clipped(call.pre[call.args.relation_a].geoms, b.geoms)

C18_Witness ==
  /\ call.op = "intersect_geometries" /\ call.pc = "done" /\ call.err = ""
  /\ call.gtype = Polygon
  /\ PointOrLineTouches(call) # {}
  /\ rels[IntersectResult(call)].types = {ST_Polygon}
  /\ rels[IntersectResult(call)].geoms = {{<<0, 0>>}}

\* a line result: relation_b holds LineStrings
C18_WitnessLines ==
  /\ call.op = "intersect_geometries" /\ call.pc = "done" /\ call.err = ""
  /\ call.gtype = LineString
  /\ rels[IntersectResult(call)].types = {ST_LineString}

\* the relation of a create_spatial_index call already has its index
IndexedBefore(c) ==
  /\ c.op = "create_spatial_index"
  /\ Exists(c.pre, c.args.relation)
  /\ IndexName(c.args.relation) \in c.pre[c.args.relation].idx

CreatedName(c) ==
  IF c.op = "intersect_geometries"
    THEN Relation(c.args.relation_b, c.args.out_name) ELSE c.args.out_name

CreateSucceeded(c) ==
  \/ Succeeded(c, "create_intersection_geometries.sql")
  \/ Succeeded(c, "create_dissolve_geometries.sql")

ReplaceFailed(c) ==
  /\ c.op = "intersect_geometries" /\ c.args.out_name = None
  /\ CreatedOk(c)
  /\ \E j \in Issued(c, "drop_rename") : ~Execs(c)[j].ok

\* C20: in intersect_geometries and dissolve_geometries an engine call that
\* fails is the last statement of the call, which ends with an error, so no
\* later step and no undoing statement follows; what the completed statements
\* did stays: nothing changed if the CREATE had not succeeded, the created
\* relation exists beside the untouched others if it had, and relation_b is the
\* renamed result without index if only the index build failed. When the
\* drop+rename fails after the CREATE of {relation_b}_tmp, {relation_b}_tmp
\* exists, relation_b is as before and no index build was issued.
C20_FirstFailureAbortsWithoutRollback ==
  Binary(call)
  => /\ \A j \in DOMAIN Execs(call) :
          ~Execs(call)[j].ok
          => j = Len(Execs(call)) /\ call.pc = "done" /\ call.err # ""
     /\ (call.pc = "done" /\ LastFailed(call))
          => /\ ~CreateSucceeded(call) => rels = call.pre
             /\ (CreateSucceeded(call) /\ ~Succeeded(call, "drop_rename"))
                  => /\ Exists(rels, CreatedName(call))
                     /\ ~Exists(call.pre, CreatedName(call))
                     /\ \A n \in DOMAIN rels \ {CreatedName(call)} :
                           rels[n] = call.pre[n]
             /\ Succeeded(call, "drop_rename")
                  => /\ Exists(rels, call.args.relation_b)
                     /\ rels[call.args.relation_b].origin = "intersection"
                     /\ rels[call.args.relation_b].idx = {}
                     /\ ~Exists(rels, TmpName(call.args.relation_b))
     /\ ReplaceFailed(call)
          => /\ Exists(rels, TmpName(call.args.relation_b))
             /\ rels[TmpName(call.args.relation_b)].origin = "intersection"
             /\ rels[call.args.relation_b] = call.pre[call.args.relation_b]
             /\ Issued(call, "create_spatial_index.sql") = {}
             /\ AllIndexes(rels) = AllIndexes(call.pre)

C20_Witness ==
  /\ ReplaceFailed(call) /\ call.pc = "done" /\ call.err = RawEngineError
  /\ ~call.args.as_view /\ call.args.build_index
  /\ call.args.relation_b = "b"
  /\ rels["b_tmp"].kind = k_TABLE
  /\ rels["b"].origin = "load"

\* the index build of a dissolve fails after its CREATE
C20_WitnessDissolve ==
  /\ call.op = "dissolve_geometries" /\ call.pc = "done" /\ LastFailed(call)
  /\ CreateSucceeded(call)
  /\ Issued(call, "create_spatial_index.sql") # {}
  /\ Exists(rels, call.args.out_name)

\* caller c works in place on relation_b as a table
InPlace(c) ==
  c.op = "intersect_geometries" /\ c.args.out_name = None /\ ~c.args.as_view

\* the step from c to cn hands the CREATE to the engine while the staging name
\* of c is taken: the statement names {relation_b}_tmp, the engine rejects it,
\* the call is over with the engine's error and nothing has changed
StagedNameTaken(c, cn) ==
  (/\ InPlace(c) /\ c.pc = "create" /\ cn # c
   /\ Exists(rels, TmpName(c.args.relation_b)))
  => /\ cn.pc = "done" /\ cn.err = RawEngineError
     /\ Execs(cn)[Len(Execs(cn))].stmt.p[2] = TmpName(c.args.relation_b)
     /\ ~Execs(cn)[Len(Execs(cn))].ok
     /\ rels' = rels

\* C21: two intersect calls interleaved at engine-call granularity are not
\* kept apart: in-place calls on the same relation_b stage under the one name
\* {relation_b}_tmp, so a caller that issues its CREATE while the other's
\* staged result exists is rejected and ends with the engine's error; the
\* two are never both between their CREATE and their drop+rename.
C21_InPlaceCallsShareTheStagingName ==
  /\ [](~(InPlace(call) /\ InPlace(other)
          /\ call.pc = "replace" /\ other.pc = "replace"))
  /\ [][StagedNameTaken(call, call') /\ StagedNameTaken(other, other')]_vars

C21_Witness ==
  /\ InPlace(call) /\ InPlace(other)
  /\ call.args.relation_b = other.args.relation_b
  /\ call.pc = "replace" /\ CreatedOk(call)
  /\ other.pc = "done" /\ other.err = RawEngineError
  /\ Len(Execs(other)) = 4
  /\ Execs(other)[4].stmt = StmtOf("create_intersection_geometries.sql",
                                    IntersectParams(other))
  /\ ~Execs(other)[4].fault
  /\ NoFault(call)
  /\ Exists(rels, "b_tmp")

\* an intersect of two polygon tables of SRID 2154 into a free name, as a
\* table, by a processor with a template directory, that met no engine outage
PlainIntersect(c) ==
  /\ c.op = "intersect_geometries" /\ c.pc = "done"
  /\ sql_directory # None
  /\ ~c.args.as_view
  /\ c.pre[c.args.relation_a].kind = k_TABLE
  /\ c.pre[c.args.relation_b].kind = k_TABLE
  /\ c.pre[c.args.relation_a].srids = {2154}
  /\ c.pre[c.args.relation_b].srids = {2154}
  /\ c.pre[c.args.relation_a].types = {ST_Polygon}
  /\ c.pre[c.args.relation_b].types = {ST_Polygon}
  /\ Dependents(c.pre, c.args.relation_b) = {}
  /\ ~Exists(c.pre, Relation(c.args.relation_b, c.args.out_name))
  /\ AllIndexes(c.pre) = {}
  /\ NoFault(c)

\* C22: an intersect with both field lists empty succeeds and leaves its
\* result relation.
C22_EmptyFieldListsSucceed ==
  (PlainIntersect(call) /\ call.args.fields_a = <<>> /\ call.args.fields_b = <<>>)
  => /\ call.err = ""
     /\ Exists(rels, FinalName(call))
     /\ rels[FinalName(call)].origin = "intersection"

\* the same call with a field named succeeds
C22_NamedFieldSucceeds ==
  (PlainIntersect(call) /\ call.args.fields_a \o call.args.fields_b # <<>>)
  => /\ call.err = ""
     /\ Exists(rels, FinalName(call))
     /\ rels[FinalName(call)].origin = "intersection"

\* C23: the function-based aggregate_relations issues no index build when the
\* result is created as a view, whatever build_index is.
C23_AggregateViewsAreNotIndexed ==
  (call.op = "legacy.aggregate_relations" /\ call.args.as_view)
  => Issued(call, "create_spatial_index.sql") = {}

\* the relation whose geometry types a function-based operation checks
Checked(c) ==
  IF c.op = "legacy.intersect_geometries" THEN c.args.relation_b ELSE c.args.relation

\* C24: in the function-based project_geometry, transform_3d_to_2d and
\* intersect_geometries, once the type query of a relation holding two or more
\* distinct geometry types is answered, the call is over with the mixed-type
\* error, the type query is the only statement issued and every relation is
\* as it was.
C24_LegacyMixedTypesAreDetected ==
  (/\ call.op \in {"legacy.project_geometry", "legacy.transform_3d_to_2d",
                    "legacy.intersect_geometries"}
   /\ TypesAnswered(call)
   /\ Cardinality(call.pre[Checked(call)].types) > 1)
  => /\ call.pc = "done" /\ call.err = MixedTypes
     /\ Len(Execs(call)) = 1
     /\ rels = call.pre

\* a relation_b of two geometry types replaced in place by the function-based
\* intersect_geometries
LegacyMixedReplaced ==
  /\ call.op = "legacy.intersect_geometries" /\ call.pc = "done" /\ call.err = ""
  /\ Cardinality(call.pre["b"].types) > 1
  /\ rels["b"].origin = "intersection"

\* the statements SqlProcessor.intersect_geometries issues from its CREATE on
\* when every one of them succeeds
ProcessorStatements(c) ==
  <<StmtOf("create_intersection_geometries.sql", IntersectParams(c))>>
  \o (IF c.args.out_name = None THEN <<ReplaceQuery(c)>> ELSE <<>>)
  \o (IF NeedsIndex(c.args.build_index, RelationType(c.args.as_view))
        THEN <<StmtOf("create_spatial_index.sql",
                      <<IndexTarget(c.args.relation_b, c.args.out_name)>>)>>
        ELSE <<>>)

StmtsFrom(c, k) == [j \in 1..(Len(Execs(c)) - k + 1) |-> Execs(c)[j + k - 1].stmt]

IsPrefix(s, t) == Len(s) <= Len(t) /\ \A j \in DOMAIN s : s[j] = t[j]

\* C30: the function-based intersect_geometries issues no SRID query and never
\* ends with the SRID-mismatch error; once the single type of relation_b is
\* known and has a dimension, what it issues after the type query is the
\* CREATE, drop+rename and index statements of SqlProcessor.intersect_geometries
\* for the same arguments, up to the first one the engine rejects, whatever
\* the SRIDs of the two relations are.
C30_LegacyIntersectIgnoresSrids ==
  call.op = "legacy.intersect_geometries"
  => /\ Issued(call, "select_srid.sql") = {}
     /\ call.err # SridMismatch
     /\ call.gtype \in DOMAIN DIMENSION
          => /\ IsPrefix(StmtsFrom(call, 2), ProcessorStatements(call))
             /\ call.pc = "done" => Len(Execs(call)) >= 2
             /\ (call.pc = "done" /\ call.err = "")
                  => StmtsFrom(call, 2) = ProcessorStatements(call)

C30_Witness ==
  /\ call.op = "legacy.intersect_geometries" /\ call.pc = "done" /\ call.err = ""
  /\ call.pre["a"].srids = {4326} /\ call.pre["b"].srids = {2154}
  /\ call.args.out_name = None /\ call.args.build_index /\ ~call.args.as_view
  /\ Len(Execs(call)) = 4
  /\ rels["b"].origin = "intersection"
  /\ rels["b"].idx = {"b_geom_idx"}

\* the relations of the start of the call that are gone, or whose name now
\* denotes a relation of another making
Lost(c) ==
  {n \in AllNames :
     /\ Exists(c.pre, n)
     /\ \/ ~Exists(rels, n)
        \/ rels[n].origin # c.pre[n].origin
        \/ rels[n].kind # c.pre[n].kind}

ReadStatements == {"select_srid.sql", "select_distinct_geometry_type.sql"}

OnlyReads(c) == \A j \in DOMAIN Execs(c) : Execs(c)[j].stmt.sql \in ReadStatements

DropsOrRenames(c) ==
  {j \in DOMAIN Execs(c) : Execs(c)[j].stmt.sql \in {"drop_relation.sql", "drop_rename"}}

\* C25: within any call of any sequence, a relation that existed when the call
\* began is gone or replaced only if the call is drop_relations with a drop
\* that succeeded or an in-place intersect whose drop+rename succeeded; an
\* intersect with out_name and a dissolve issue no drop and no rename and
\* leave relation_a and relation_b exactly as they were; map_geometry_type,
\* and the SRID and type queries that open intersect and dissolve, issue only
\* read statements and change nothing.
C25_RelationsGoOnlyByDropOrReplace ==
  call.op # "none"
  => /\ Lost(call) # {}
          => \/ call.op = "drop_relations" /\ Succeeded(call, "drop_relation.sql")
             \/ /\ call.op = "intersect_geometries" /\ call.args.out_name = None
                /\ Succeeded(call, "drop_rename")
                /\ Lost(call) \subseteq {call.args.relation_b}
     /\ (\/ call.op = "intersect_geometries" /\ call.args.out_name # None
         \/ call.op = "dissolve_geometries")
          => /\ DropsOrRenames(call) = {}
             /\ rels[call.args.relation_a] = call.pre[call.args.relation_a]
             /\ rels[call.args.relation_b] = call.pre[call.args.relation_b]
     /\ (\/ call.op = "map_geometry_type"
         \/ Binary(call) /\ ~Succeeded(call, "create_intersection_geometries.sql")
                         /\ ~Succeeded(call, "create_dissolve_geometries.sql"))
          => rels = call.pre
     /\ (\/ call.op = "map_geometry_type"
         \/ Binary(call) /\ call.pc \in {"srid_a", "srid_b", "srid", "type_b", "create"})
          => OnlyReads(call)

C25_Witness ==
  /\ call.op = "drop_relations" /\ call.pc = "done" /\ call.err = ""
  /\ call.args.relations = <<"b">>
  /\ call.pre["c"].kind = k_VIEW
  /\ Lost(call) = {"b", "c"}
  /\ rels["a"] = call.pre["a"]

\* a dissolve that made table c and its index beside the untouched inputs
C25_WitnessDissolve ==
  /\ call.op = "dissolve_geometries" /\ call.pc = "done" /\ call.err = ""
  /\ rels["c"].idx = {"c_geom_idx"}
  /\ Lost(call) = {}

\* relation_b of the running intersect has one geometry type, and its
\* singlepart form is no key of DIMENSION
NoDimension(c) ==
  /\ c.op = "intersect_geometries"
  /\ TypesAnswered(c)
  /\ Cardinality(c.pre[c.args.relation_b].types) = 1
  /\ \A t \in c.pre[c.args.relation_b].types :
        convert_st_to_type(t, FALSE).val \notin {Point, LineString, Polygon}

\* C26: in intersect_geometries with equal SRIDs, once the type query of a
\* relation_b whose single geometry type has no entry in DIMENSION is answered,
\* the call is over with the failed lookup; the two SRID queries and the type
\* query are all that was issued, in that order, and every relation is as it
\* was.
C26_UnknownDimensionStopsBeforeCreate ==
  NoDimension(call)
  => /\ call.pc = "done" /\ call.err = "KeyError"
     /\ Sqls(call) = <<"select_srid.sql", "select_srid.sql",
                       "select_distinct_geometry_type.sql">>
     /\ rels = call.pre

C26_Witness ==
  /\ NoDimension(call)
  /\ call.pre["b"].types = {ST_GeometryCollection}
  /\ call.gtype = GeometryCollection
  /\ call.srid_a = 2154 /\ call.srid_b = 2154
  /\ call.err = "KeyError"

\* what dissolve_geometries issues when nothing stops it
DissolveStatements(c) ==
  <<StmtOf("select_srid.sql", <<c.args.relation_a>>),
    StmtOf("select_srid.sql", <<c.args.relation_b>>),
    StmtOf("select_srid.sql", <<c.args.relation_a>>),
    StmtOf("create_dissolve_geometries.sql",
           <<RelationType(c.args.as_view), c.args.out_name, c.srid,
             c.args.relation_a, c.args.relation_b>>),
    StmtOf("create_spatial_index.sql", <<c.args.out_name>>)>>

\* the three SRID queries of the call were answered with an SRID, the first
\* two with the same one
SridsAgree(c) ==
  /\ Len(Execs(c)) >= 3
  /\ \A j \in 1..3 : Execs(c)[j].ok
  /\ Len(Fetches(c)) >= 3
  /\ \A j \in 1..3 : Fetches(c)[j].rows # <<>>
  /\ Fetches(c)[1].rows[1] = Fetches(c)[2].rows[1]

\* C27: dissolve_geometries never queries geometry types and never ends with
\* the mixed-type error; its statements are, in order, SRID of relation_a, SRID
\* of relation_b, SRID of relation_a, CREATE, then the index build; when the
\* SRID queries are answered and the first two agree, the CREATE is issued,
\* whatever geometry types the inputs hold.
C27_DissolveChecksNoGeometryType ==
  call.op = "dissolve_geometries"
  => /\ Issued(call, "select_distinct_geometry_type.sql") = {}
     /\ call.err \notin {MixedTypes, "KeyError", "ValueError: not compatible with PostGIS"}
     /\ IsPrefix(StmtsFrom(call, 1), DissolveStatements(call))
     /\ (call.pc = "done" /\ SridsAgree(call))
          => /\ Len(Execs(call)) >= 4
             /\ Execs(call)[4].stmt.sql = "create_dissolve_geometries.sql"

C27_Witness ==
  /\ call.op = "dissolve_geometries" /\ call.pc = "done"
  /\ SridsAgree(call)
  /\ call.pre["b"].types = {ST_Polygon, ST_MultiPolygon}
  /\ call.args.as_view
  /\ Sqls(call) = <<"select_srid.sql", "select_srid.sql", "select_srid.sql",
                    "create_dissolve_geometries.sql">>
  /\ Exists(rels, "c")

\* a relation_b of line strings reaches the CREATE as well
C27_WitnessLines ==
  /\ call.op = "dissolve_geometries" /\ call.pc = "done"
  /\ SridsAgree(call)
  /\ call.pre["b"].types = {ST_LineString}
  /\ Len(Execs(call)) = 4
  /\ ~Execs(call)[4].fault

\* an in-place table intersect that is to build the index
InPlaceIndexed(c) == InPlaceTable(c) /\ c.args.build_index

\* C28: in an in-place table intersect with build_index, however many such
\* calls came before, the index build follows a successful drop+rename and
\* finds relation_b without index and the name {relation_b}_geom_idx free, so
\* only an engine outage makes it fail; the staged {relation_b}_tmp never
\* carries an index; a call that returns normally leaves relation_b with
\* exactly the index {relation_b}_geom_idx.
C28_RepeatedInPlaceIndexNeverCollides ==
  InPlaceIndexed(call)
  => /\ call.pc = "index"
          => /\ Succeeded(call, "drop_rename")
             /\ rels[call.args.relation_b].idx = {}
             /\ IndexName(call.args.relation_b) \notin AllIndexes(rels)
     /\ \A j \in Issued(call, "create_spatial_index.sql") :
          /\ Execs(call)[j].stmt.p = <<call.args.relation_b>>
          /\ Execs(call)[j].ok \/ Execs(call)[j].fault
     /\ Exists(rels, TmpName(call.args.relation_b))
          => rels[TmpName(call.args.relation_b)].idx = {}
     /\ (call.pc = "done" /\ call.err = "")
          => rels[call.args.relation_b].idx = {IndexName(call.args.relation_b)}

\* the second in-place intersect in a row on an indexed relation_b
C28_Witness ==
  /\ InPlaceIndexed(call) /\ call.pc = "done" /\ call.err = ""
  /\ call.pre["b"].origin = "intersection"
  /\ call.pre["b"].idx = {"b_geom_idx"}
  /\ rels["b"].idx = {"b_geom_idx"}
  /\ ncalls = 2

\* the events of log before its k-th
Before(log, k) == SubSeq(log, 1, k - 1)

\* C29: every read of result rows in get_srid and map_geometry_type, alone or
\* inside another operation, comes right after the release of the connection
\* that ran the query, when no connection is held, and the rows read are those
\* that statement returned.
C29_RowsAreReadAfterRelease ==
  \A k \in DOMAIN call.log :
     call.log[k].e = "fetch"
     => /\ k > 2
        /\ call.log[k - 1].e = "release"
        /\ call.log[k - 2].e = "execute" /\ call.log[k - 2].ok
        /\ call.log[k - 2].stmt.sql \in ReadStatements
        /\ Held(Before(call.log, k)) = 0

C29_Witness ==
  /\ call.op = "map_geometry_type" /\ call.pc = "done" /\ call.err = ""
  /\ Len(Fetches(call)) = 1
  /\ Fetches(call)[1].rows = <<<<ST_MultiPolygon>>>>
  /\ call.log[Len(call.log)].e = "fetch"
  /\ call.log[Len(call.log) - 1].e = "release"

\* the SRID reads of an intersect
C29_WitnessSrid ==
  /\ call.op = "intersect_geometries" /\ call.pc = "type_b"
  /\ Len(Fetches(call)) = 2
  /\ call.log[Len(call.log)].e = "fetch"
  /\ Held(Before(call.log, Len(call.log))) = 0

====
